---- MODULE Spec2Model ----
(***************************************************************************)
(* Drug interaction detection: the interaction service                     *)
(* (backend/app/services/interaction_service.py) and the interaction       *)
(* engine (interaction_engine.py), over a drug catalog, and the drug name   *)
(* standardization service (backend/app/services/external_apis.py).        *)
(*                                                                         *)
(* Numbers: every score of the service is kept as an exact integer         *)
(* numerator.  Evidence/documentation scores are in tenths, a confidence   *)
(* (e+d)/2 is in twentieths, a risk score is in units of 1/RiskScale.      *)
(***************************************************************************)
EXTENDS Integers, Sequences, FiniteSets, TLC

VARIABLES
    drug_interactions,  \* the drug_interactions table: a set of rows
    pc,                 \* "idle" | "done": position of the one caller
    call,               \* arguments of the call in progress / last call
    medications,        \* the list _get_medications_to_check built
    queries,            \* the (drug1_id, drug2_id) lookups issued by the call
    ret,                \* what the call returned or raised
    edb,                \* the engine's database (drugs, interactions) and the
                        \* drug_names_cache loaded from it
    drug_list,          \* DrugNameMatcher.drug_list
    nlp_available,      \* DrugNameMatcher.nlp_available
    embedding,          \* "strict" | "loose" | "failing": the embedding model
                        \* that was loaded
    epc,                \* "idle" | "done": position of the engine's caller
    ecall,              \* the drug names passed to detect_interactions
    eret,               \* the matches, the pairs and the alerts detect_interactions
                        \* produced
    drug_cache,         \* DrugStandardizationService.drug_cache
    api_cache,          \* ExternalAPIService.cache
    calls,              \* the standardize_drug_name calls made so far: name,
                        \* returned value, requests sent to the external APIs
    drug_vectors,       \* DrugNameMatcher.drug_vectors: the names its rows were
                        \* fitted on, row by row
    lpc,                \* position of the thread in load_drug_database
    lfilled,            \* the drugs whose names that thread has put in the cache
    qpc,                \* position of the thread in match_drug_names
    qname,              \* the name that thread is matching
    qseen,              \* what that thread read of the index, read by read
    qret,               \* the matches it returned
    scans,              \* the prescription_scans table as committed: row i has id i
    scan,               \* the PrescriptionScan object of the request in its session
    upc,                \* position of upload_and_scan_prescription
    upload,             \* its request, the step that raised, whether a commit failed
    uresp,              \* the OCRResponse it returned
    interaction_rows,   \* the rows of the table add_drug_interaction writes to
    apc,                \* position of each add_drug_interaction request
    areq,               \* each request: current_user, drug1, drug2
    aresp,              \* each request's answer: the status raised at a check,
                        \* the status that reaches the caller, whether a row was added
    areqs,              \* the add_drug_interaction requests received so far
    session,            \* ExternalAPIService.session of the shared service
    sessions,           \* every aiohttp.ClientSession created so far: open or closed
    cpc,                \* position of each standardize_drug_name call
    copened,            \* the session each call created on entering the context
    cuses               \* the requests each call sent: the session used, whether
                        \* it was open

svars == <<drug_interactions, pc, call, medications, queries, ret>>
evars == <<edb, drug_list, nlp_available, embedding, epc, ecall, eret>>
xvars == <<drug_cache, api_cache, calls>>
rvars == <<drug_vectors, lpc, lfilled, qpc, qname, qseen, qret>>
scanvars == <<scans, scan, upc, upload, uresp>>
adminvars == <<interaction_rows, apc, areq, aresp, areqs>>
sessvars == <<session, sessions, cpc, copened, cuses>>
hvars == <<scanvars, adminvars, sessvars>>
vars == <<svars, evars, xvars, rvars, hvars>>

\* Python None / SQL NULL for string-valued fields; ids use 0 (falsy, like None).
NULL == "NULL"
NoId == 0

------------------------------------------------------------------------------
(* Bounds of the model *)

MaxNames == 2       \* longest drug_names list of a call
MaxRows == 2        \* most rows of the drug_interactions table
MaxCalls == 3       \* most standardize_drug_name calls of a run
MaxScans == 2       \* most upload_and_scan_prescription requests of a run
MaxRequests == 3    \* most add_drug_interaction requests of a run
MaxSessions == 3    \* most ClientSession objects created in a run

------------------------------------------------------------------------------
(* Strings.  A name is a TLA+ string; Chars spells it out so that ilike    *)
(* can be computed on its characters.                                      *)

Chars(s) ==
    CASE s = "war" -> <<"w", "a", "r">>
      [] s = "cou" -> <<"c", "o", "u">>
      [] s = "COU" -> <<"C", "O", "U">>
      [] s = "asa" -> <<"a", "s", "a">>
      [] s = "ibu" -> <<"i", "b", "u">>
      [] s = "xyz" -> <<"x", "y", "z">>
      [] s = "a"   -> <<"a">>
      [] s = "herb" -> <<"h", "e", "r", "b">>
      [] s = "warf" -> <<"w", "a", "r", "f">>
      [] s = "wart" -> <<"w", "a", "r", "t">>
      [] s = "warx" -> <<"w", "a", "r", "x">>
      [] s = "coum" -> <<"c", "o", "u", "m">>
      [] s = "Coum" -> <<"C", "o", "u", "m">>
      [] s = "aspi" -> <<"a", "s", "p", "i">>
      [] s = "zzzz" -> <<"z", "z", "z", "z">>
      [] s = "x"    -> <<"x">>
      [] s = "mg"   -> <<"m", "g">>
      [] s = "5mg"  -> <<"5", "m", "g">>
      [] s = "ward" -> <<"w", "a", "r", "d">>
      [] s = "wark" -> <<"w", "a", "r", "k">>
      [] s = "warm" -> <<"w", "a", "r", "m">>
      [] s = "warn" -> <<"w", "a", "r", "n">>
      [] s = " asa" -> <<" ", "a", "s", "a">>
      [] s = "ASA" -> <<"A", "S", "A">>
      [] s = "advil" -> <<"a", "d", "v", "i", "l">>
      [] s = "ibuprofen" -> <<"i", "b", "u", "p", "r", "o", "f", "e", "n">>
      [] OTHER     -> <<>>

\* str.lower() on one character
LowerChar(c) ==
    CASE c = "A" -> "a"
      [] c = "B" -> "b"
      [] c = "C" -> "c"
      [] c = "D" -> "d"
      [] c = "E" -> "e"
      [] c = "F" -> "f"
      [] c = "G" -> "g"
      [] c = "H" -> "h"
      [] c = "I" -> "i"
      [] c = "J" -> "j"
      [] c = "K" -> "k"
      [] c = "L" -> "l"
      [] c = "M" -> "m"
      [] c = "N" -> "n"
      [] c = "O" -> "o"
      [] c = "P" -> "p"
      [] c = "Q" -> "q"
      [] c = "R" -> "r"
      [] c = "S" -> "s"
      [] c = "T" -> "t"
      [] c = "U" -> "u"
      [] c = "V" -> "v"
      [] c = "W" -> "w"
      [] c = "X" -> "x"
      [] c = "Y" -> "y"
      [] c = "Z" -> "z"
      [] OTHER   -> c

Lower(cs) == [i \in 1..Len(cs) |-> LowerChar(cs[i])]

\* needle occurs in hay as a contiguous run
Contains(hay, needle) ==
    \E k \in 0..(Len(hay) - Len(needle)) :
        \A i \in 1..Len(needle) : hay[k + i] = needle[i]

\* column ILIKE '%q%': case-insensitive substring; NULL ILIKE anything is not true
ILike(column, q) ==
    /\ column # NULL
    /\ Contains(Lower(Chars(column)), Lower(Chars(q)))

------------------------------------------------------------------------------
(* The catalog: drugs and medications are fixed tables, the interaction    *)
(* table is chosen by Init.                                                *)

\* rows of the drugs table (Drug: id, name, generic_name, drug_class)
Drugs ==
    { [id |-> 1, name |-> "cou", generic_name |-> "war",  drug_class |-> "anticoagulant"],
      [id |-> 2, name |-> "asa", generic_name |-> NULL,   drug_class |-> "nsaid"],
      [id |-> 3, name |-> "ibu", generic_name |-> "ibu",  drug_class |-> "nsaid"] }

DrugIds == {d.id : d \in Drugs}

DrugById(id) == CHOOSE d \in Drugs : d.id = id

\* rows of the medications table (Medication: id, user_id, drug_id, custom_name, is_active)
Medications ==
    { [id |-> 1, user_id |-> 1, drug_id |-> 1,    custom_name |-> NULL,   is_active |-> TRUE],
      [id |-> 2, user_id |-> 1, drug_id |-> NoId, custom_name |-> "herb", is_active |-> TRUE],
      [id |-> 3, user_id |-> 1, drug_id |-> 3,    custom_name |-> NULL,   is_active |-> FALSE] }

\* SeverityLevel
SeverityLevel == {"minor", "moderate", "major", "critical"}

\* The attribute combinations the rows of a catalog are drawn from.
RowProfiles ==
    { [severity |-> "critical", evidence_level |-> "theoretical", documentation |-> "poor",
       frequency |-> "rare", onset |-> "delayed", source |-> NULL],
      [severity |-> "major", evidence_level |-> "clinical_trial", documentation |-> "good",
       frequency |-> "common", onset |-> "rapid", source |-> "FDA"],
      [severity |-> "major", evidence_level |-> NULL, documentation |-> NULL,
       frequency |-> NULL, onset |-> NULL, source |-> NULL] }

\* a DrugInteraction row
MkRow(d1, d2, p) ==
    [drug1_id |-> d1, drug2_id |-> d2, severity |-> p.severity,
     evidence_level |-> p.evidence_level, documentation |-> p.documentation,
     frequency |-> p.frequency, onset |-> p.onset, source |-> p.source]

RowUniverse == {MkRow(d1, d2, p) : d1 \in DrugIds, d2 \in DrugIds, p \in RowProfiles}

\* UniqueConstraint('drug1_id', 'drug2_id'): unique on the ORDERED pair only
UniqueConstraint(rows) ==
    \A r1, r2 \in rows :
        (r1.drug1_id = r2.drug1_id /\ r1.drug2_id = r2.drug2_id) => r1 = r2

RECURSIVE TablesUpTo(_)
TablesUpTo(n) ==
    IF n = 0 THEN {{}}
    ELSE LET prev == TablesUpTo(n - 1)
         IN prev \cup {t \cup {r} : t \in prev, r \in RowUniverse}

Catalogs == {t \in TablesUpTo(MaxRows) : UniqueConstraint(t)}

------------------------------------------------------------------------------
(* InteractionService._get_medications_to_check *)

\* the rows of a result in the order the database returns them (by primary key)
RECURSIVE OrderById(_)
OrderById(rows) ==
    IF rows = {} THEN <<>>
    ELSE LET first == CHOOSE r \in rows : \A o \in rows : r.id <= o.id
         IN <<first>> \o OrderById(rows \ {first})

\* the dict built from a (Medication, Drug) row of the outer join
MedicationEntry(m) ==
    IF m.drug_id \in DrugIds
    THEN LET drug == DrugById(m.drug_id)
         IN [medication_id |-> m.id, drug_id |-> drug.id, name |-> drug.name,
             generic_name |-> drug.generic_name]
    ELSE [medication_id |-> m.id, drug_id |-> NoId, name |-> m.custom_name,
          generic_name |-> NULL]

\* the drug names a caller passes
NameUniverse == {"war", "COU", "asa", "xyz", "a"}

\* select(Drug).where(or_(Drug.name.ilike(%q%), Drug.generic_name.ilike(%q%))),
\* tabulated once per name of NameUniverse
DrugsLikeTable ==
    [q \in NameUniverse |-> {d \in Drugs : ILike(d.name, q) \/ ILike(d.generic_name, q)}]

DrugsLike(q) == DrugsLikeTable[q]

\* the dict built for one drug name, its query having returned at most one row
NameEntry(q) ==
    IF DrugsLike(q) # {}
    THEN LET drug == CHOOSE d \in DrugsLike(q) : TRUE
         IN [medication_id |-> NoId, drug_id |-> drug.id, name |-> drug.name,
             generic_name |-> drug.generic_name]
    ELSE [medication_id |-> NoId, drug_id |-> NoId, name |-> q, generic_name |-> NULL]

\* scalar_one_or_none() raises MultipleResultsFound on more than one row
NameQueryRaises(q) == Cardinality(DrugsLike(q)) > 1

SeqToSet(s) == {s[i] : i \in 1..Len(s)}

GetMedicationsToCheck(medication_ids, drug_names, user_id) ==
    LET byIds == IF medication_ids # <<>>
                 THEN OrderById({m \in Medications : m.id \in SeqToSet(medication_ids)})
                 ELSE <<>>
        byUser == IF user_id # NoId /\ medication_ids = <<>>
                  THEN OrderById({m \in Medications : m.user_id = user_id /\ m.is_active})
                  ELSE <<>>
    IN  IF \E i \in 1..Len(drug_names) : NameQueryRaises(drug_names[i])
        THEN [raised |-> TRUE, medications |-> <<>>]
        ELSE [raised |-> FALSE,
              medications |->
                  [i \in 1..Len(byIds) |-> MedicationEntry(byIds[i])]
                  \o [i \in 1..Len(drug_names) |-> NameEntry(drug_names[i])]
                  \o [i \in 1..Len(byUser) |-> MedicationEntry(byUser[i])]]

------------------------------------------------------------------------------
(* InteractionService._find_interactions *)

\* variant of PairQuery: the where clause without its second and_ (stored order only)
PairQueryStoredOrder(rows, a, b) ==
    {r \in rows : r.drug1_id = a /\ r.drug2_id = b}

\* the rows the where clause of the pair query selects
PairQuery(rows, a, b) ==
    {r \in rows : \/ (r.drug1_id = a /\ r.drug2_id = b)
                  \/ (r.drug1_id = b /\ r.drug2_id = a)}

\* result.scalar_one_or_none() of the pair query
InteractionLookup(rows, a, b) ==
    LET found == PairQuery(rows, a, b)
    IN  IF found = {} THEN [kind |-> "none", rows |-> {}]
        ELSE IF Cardinality(found) = 1 THEN [kind |-> "one", rows |-> found]
        ELSE [kind |-> "raise", rows |-> {}]

\* variant of SkipPair: the loop without its continue
SkipPairNever(med1, med2) == FALSE

\* if not med1.get('drug_id') or not med2.get('drug_id'): continue
SkipPair(med1, med2) == med1.drug_id = NoId \/ med2.drug_id = NoId

\* for i, med1 in enumerate(medications): for med2 in medications[i+1:]
RECURSIVE PairsFrom(_, _, _)
PairsFrom(i, j, n) ==
    IF i > n THEN <<>>
    ELSE IF j > n THEN PairsFrom(i + 1, i + 2, n)
    ELSE <<<<i, j>>>> \o PairsFrom(i, j + 1, n)

\* The loop from its k-th pair on.  acc.interactions is the list of rows found;
\* acc.info maps a row to the med1_info/med2_info last set on it: the session
\* returns one object per row, so a row found for two pairs is one object whose
\* attributes the later pair overwrites.
RECURSIVE FindLoop(_, _, _, _, _)
FindLoop(rows, meds, pairs, k, acc) ==
    IF k > Len(pairs) THEN acc
    ELSE LET med1 == meds[pairs[k][1]]
             med2 == meds[pairs[k][2]]
         IN  IF SkipPair(med1, med2) THEN FindLoop(rows, meds, pairs, k + 1, acc)
             ELSE LET res == InteractionLookup(rows, med1.drug_id, med2.drug_id)
                      asked == acc.queries \cup {<<med1.drug_id, med2.drug_id>>}
                  IN  IF res.kind = "raise"
                      THEN [acc EXCEPT !.raised = TRUE, !.queries = asked]
                      ELSE IF res.kind = "none"
                      THEN FindLoop(rows, meds, pairs, k + 1, [acc EXCEPT !.queries = asked])
                      ELSE LET row == CHOOSE r \in res.rows : TRUE
                           IN FindLoop(rows, meds, pairs, k + 1,
                                  [raised |-> FALSE,
                                   interactions |-> Append(acc.interactions, row),
                                   info |-> [r \in DOMAIN acc.info \cup {row} |->
                                               IF r = row THEN <<med1, med2>> ELSE acc.info[r]],
                                   queries |-> asked])

FindInteractions(rows, meds) ==
    FindLoop(rows, meds, PairsFrom(1, 2, Len(meds)), 1,
             [raised |-> FALSE, interactions |-> <<>>, info |-> <<>>, queries |-> {}])

------------------------------------------------------------------------------
(* InteractionService: scoring and alerts *)

\* self.severity_scores
severity_scores(severity) ==
    CASE severity = "minor"    -> 1
      [] severity = "moderate" -> 2
      [] severity = "major"    -> 3
      [] severity = "critical" -> 4

\* evidence_scores.get(evidence_level, 0.5), in tenths
evidence_scores(evidence_level) ==
    CASE evidence_level = "systematic_review" -> 10
      [] evidence_level = "clinical_trial"    -> 9
      [] evidence_level = "observational"     -> 7
      [] evidence_level = "case_report"       -> 5
      [] evidence_level = "theoretical"       -> 3
      [] OTHER                                -> 5

\* documentation_scores.get(documentation, 0.6), in tenths
documentation_scores(documentation) ==
    CASE documentation = "excellent" -> 10
      [] documentation = "good"      -> 8
      [] documentation = "fair"      -> 6
      [] documentation = "poor"      -> 4
      [] OTHER                       -> 6

\* a confidence is kept in twentieths: (e/10 + d/10) / 2 = (e + d) / 20
ConfidenceScale == 2 * 10

\* _calculate_confidence, in twentieths
CalculateConfidence(interaction) ==
    evidence_scores(interaction.evidence_level)
        + documentation_scores(interaction.documentation)

\* frequency_multiplier, in tenths
FrequencyMultiplier(frequency) ==
    CASE frequency = "common" -> 12
      [] frequency = "rare"   -> 8
      [] OTHER                -> 10

\* onset_multiplier, in tenths
OnsetMultiplier(onset) == IF onset = "rapid" THEN 11 ELSE 10

\* a risk score is kept in units of 1/RiskScale:
\* (severity/4) * (confidence/20) * (frequency/10) * (onset/10)
RiskScale == 4 * ConfidenceScale * 10 * 10

Min(a, b) == IF a <= b THEN a ELSE b

\* severity_score * confidence * frequency_multiplier * onset_multiplier
RiskProduct(interaction, confidence) ==
    severity_scores(interaction.severity) * confidence
        * FrequencyMultiplier(interaction.frequency)
        * OnsetMultiplier(interaction.onset)

\* variant of CalculateRiskScore: the product without min(risk_score, 1.0)
CalculateRiskScoreNoClamp(interaction, confidence) == RiskProduct(interaction, confidence)

\* _calculate_risk_score, in units of 1/RiskScale
CalculateRiskScore(interaction, confidence) ==
    Min(RiskProduct(interaction, confidence), RiskScale)

\* variant of AlertSource: the record's source without the "database" default
AlertSourceRaw(interaction) == interaction.source

\* source=interaction.source or "database"
AlertSource(interaction) ==
    IF interaction.source = NULL THEN "database" ELSE interaction.source

\* _create_interaction_alert; info is the row's (med1_info, med2_info)
CreateInteractionAlert(interaction, info) ==
    LET confidence == CalculateConfidence(interaction)
    IN  [drug1_name |-> info[1].name,
         drug2_name |-> info[2].name,
         severity |-> interaction.severity,
         confidence |-> confidence,
         risk_score |-> CalculateRiskScore(interaction, confidence),
         source |-> AlertSource(interaction)]

------------------------------------------------------------------------------
(* InteractionService.check_interactions *)

\* variant of KeyGE: the sort key without the severity component
KeyGERiskOnly(a, b) == a.risk_score >= b.risk_score

\* the sort key (self.severity_scores[x.severity], x.risk_score): a before-or-equal b
\* in descending order
KeyGE(a, b) ==
    \/ severity_scores(a.severity) > severity_scores(b.severity)
    \/ /\ severity_scores(a.severity) = severity_scores(b.severity)
       /\ a.risk_score >= b.risk_score

\* list.sort(key=..., reverse=True): stable, equal keys keep their order
RECURSIVE SortAlerts(_)
SortAlerts(alerts) ==
    IF Len(alerts) <= 1 THEN alerts
    ELSE LET n == Len(alerts)
             init == SortAlerts(SubSeq(alerts, 1, n - 1))
             x == alerts[n]
             \* x goes after every element whose key is >= its own
             at == Cardinality({i \in 1..(n - 1) : KeyGE(init[i], x)})
         IN SubSeq(init, 1, at) \o <<x>> \o SubSeq(init, at + 1, n - 1)

CheckInteractions(rows, medication_ids, drug_names, user_id) ==
    LET got == GetMedicationsToCheck(medication_ids, drug_names, user_id)
    IN  IF got.raised
        THEN [status |-> "ProcessingException", alerts |-> <<>>,
              medications |-> <<>>, queries |-> {}]
        ELSE IF Len(got.medications) < 2
        THEN [status |-> "ok", alerts |-> <<>>,
              medications |-> got.medications, queries |-> {}]
        ELSE LET found == FindInteractions(rows, got.medications)
             IN  IF found.raised
                 THEN [status |-> "ProcessingException", alerts |-> <<>>,
                       medications |-> got.medications, queries |-> found.queries]
                 ELSE [status |-> "ok",
                       alerts |-> SortAlerts(
                           [i \in 1..Len(found.interactions) |->
                               CreateInteractionAlert(found.interactions[i],
                                                      found.info[found.interactions[i]])]),
                       medications |-> got.medications, queries |-> found.queries]

------------------------------------------------------------------------------
(* The interaction engine (interaction_engine.py): its database *)

\* rows of the engine's drugs table (Drug: id, name, brand_names, drug_class);
\* class3 is the drug_class of drug 3
EngineDrugs(class3) ==
    { [id |-> 1, name |-> "warf", brand_names |-> <<"Coum">>, drug_class |-> "anticoagulant"],
      [id |-> 2, name |-> "wart", brand_names |-> <<>>,       drug_class |-> "anticoagulant"],
      [id |-> 3, name |-> "aspi", brand_names |-> <<>>,       drug_class |-> class3] }

\* a drugs table with more similar names than process.extract returns
LargeCatalogNames == <<"warf", "wart", "ward", "wark", "warm", "warn">>

EngineDrugsLarge ==
    {[id |-> i, name |-> LargeCatalogNames[i], brand_names |-> <<>>, drug_class |-> NULL] :
        i \in 1..Len(LargeCatalogNames)}

\* rows of the engine's interactions table, each with the drug ids the
\* association table links it to
EngineInteractionUniverse ==
    { [id |-> 1, drugs |-> {1, 3}, severity |-> "major", evidence_level |-> "established",
       source |-> NULL],
      [id |-> 2, drugs |-> {2, 3}, severity |-> "minor", evidence_level |-> NULL,
       source |-> "FDA"] }

\* every string of the model, for turning characters back into a string
AllStrings ==
    {"war", "cou", "COU", "asa", "ibu", "xyz", "a", "herb", "warf", "wart", "warx",
     "coum", "Coum", "aspi", "zzzz", "x", "mg", "5mg", " asa", "ASA", "advil",
     "ibuprofen", "ward", "wark", "warm", "warn"}

\* the string spelled by the characters cs
StrOf(cs) == CHOOSE s \in AllStrings : Chars(s) = cs

\* str.lower() on a string
LowerStr(s) == StrOf(Lower(Chars(s)))

------------------------------------------------------------------------------
(* DrugNameMatcher.load_drug_database *)

\* all_drug_names: the lower-cased generic and brand names of every drug
AllDrugNames(drugs) ==
    {LowerStr(d.name) : d \in drugs}
        \cup UNION {{LowerStr(d.brand_names[i]) : i \in 1..Len(d.brand_names)} : d \in drugs}

\* drug_names_cache: name -> the entry written last, drugs taken in id order
\* (a later drug overwrites the key of an earlier one)
DrugNamesCache(drugs) ==
    [n \in AllDrugNames(drugs) |->
        LET owners == {d \in drugs :
                          \/ LowerStr(d.name) = n
                          \/ \E i \in 1..Len(d.brand_names) : LowerStr(d.brand_names[i]) = n}
            last == CHOOSE d \in owners : \A o \in owners : o.id <= d.id
        IN [drug_id |-> last.id, generic_name |-> last.name]]

\* the orders list(set(all_drug_names)) can produce: any order of the set
RECURSIVE Orders(_)
Orders(S) ==
    IF S = {} THEN {<<>>}
    ELSE UNION {{<<x>> \o rest : rest \in Orders(S \ {x})} : x \in S}

------------------------------------------------------------------------------
(* DrugNameMatcher._clean_drug_name.  A raw name is a sequence of tokens      *)
(* separated by single blanks.                                               *)

\* the raw names a caller passes to the engine
EngineNameUniverse == {"warf", "Coum", "warx", "aspi 5mg", "zzzz", "x", "mg"}

Tokens(raw) ==
    CASE raw = "aspi 5mg" -> <<"aspi", "5mg">>
      [] OTHER            -> <<raw>>

\* len(name.strip()) of a raw name
RECURSIVE TokenChars(_)
TokenChars(toks) ==
    IF toks = <<>> THEN 0 ELSE Len(Chars(Head(toks))) + TokenChars(Tail(toks))

RawLen(raw) == LET toks == Tokens(raw) IN TokenChars(toks) + (Len(toks) - 1)

\* \b(tablet|capsule|mg|g|ml|injection|solution|cream|ointment)\b
FormWords ==
    {<<"t", "a", "b", "l", "e", "t">>,
     <<"c", "a", "p", "s", "u", "l", "e">>,
     <<"m", "g">>,
     <<"g">>,
     <<"m", "l">>,
     <<"i", "n", "j", "e", "c", "t", "i", "o", "n">>,
     <<"s", "o", "l", "u", "t", "i", "o", "n">>,
     <<"c", "r", "e", "a", "m">>,
     <<"o", "i", "n", "t", "m", "e", "n", "t">>}

\* the units of the dosage pattern that are written in ASCII (the pattern's
\* last alternative is a non-ASCII spelling no name of the model contains)
DoseUnits == {<<"m", "g">>, <<"g">>, <<"m", "l">>, <<"m", "c", "g">>}

IsDigit(c) == c \in {"0", "1", "2", "3", "4", "5", "6", "7", "8", "9"}

\* a whole token of the shape \d+(?:mg|g|ml|mcg|µg)
IsDose(cs) ==
    \E k \in 1..(Len(cs) - 1) :
        /\ \A i \in 1..k : IsDigit(cs[i])
        /\ Lower(SubSeq(cs, k + 1, Len(cs))) \in DoseUnits

RECURSIVE JoinBlank(_)
JoinBlank(words) ==
    IF words = <<>> THEN <<>>
    ELSE IF Len(words) = 1 THEN words[1]
    ELSE words[1] \o <<" ">> \o JoinBlank(Tail(words))

\* _clean_drug_name: form words and dosages removed, blanks collapsed, lower case;
\* the result is a sequence of characters
CleanDrugName(raw) ==
    LET toks == Tokens(raw)
        kept == SelectSeq([i \in 1..Len(toks) |-> Chars(toks[i])],
                          LAMBDA cs : Lower(cs) \notin FormWords /\ ~IsDose(cs))
    IN  JoinBlank([i \in 1..Len(kept) |-> Lower(kept[i])])

------------------------------------------------------------------------------
(* DrugNameMatcher: the matching strategies *)

\* match_drug_names(..., threshold: float = 0.7), in percent
DefaultThreshold == 70

\* process.extract(..., limit=5, ...)
FuzzyLimit == 5

\* candidate_names = self.drug_list[:100]
SemanticLimit == 100

Max(a, b) == IF a >= b THEN a ELSE b

\* length of a longest common subsequence
RECURSIVE LCS(_, _)
LCS(a, b) ==
    IF a = <<>> \/ b = <<>> THEN 0
    ELSE IF Head(a) = Head(b) THEN 1 + LCS(Tail(a), Tail(b))
    ELSE Max(LCS(Tail(a), b), LCS(a, Tail(b)))

\* int(round(n / d)): ties go to the even neighbour
RoundDiv(n, d) ==
    LET q == n \div d
        r == n % d
    IN  IF 2 * r > d \/ (2 * r = d /\ q % 2 = 1) THEN q + 1 ELSE q

IsLower(c) ==
    c \in {"a", "b", "c", "d", "e", "f", "g", "h", "i", "j", "k", "l", "m",
           "n", "o", "p", "q", "r", "s", "t", "u", "v", "w", "x", "y", "z"}

\* str.isalnum() on one character
IsAlnum(c) == IsDigit(c) \/ IsLower(LowerChar(c))

RECURSIVE LStrip(_)
LStrip(cs) == IF cs # <<>> /\ Head(cs) = " " THEN LStrip(Tail(cs)) ELSE cs

RECURSIVE RStrip(_)
RStrip(cs) ==
    IF cs # <<>> /\ cs[Len(cs)] = " " THEN RStrip(SubSeq(cs, 1, Len(cs) - 1)) ELSE cs

\* fuzzywuzzy utils.full_process: non-alphanumerics to blanks, lower case, strip
FullProcess(cs) ==
    RStrip(LStrip(Lower([i \in 1..Len(cs) |-> IF IsAlnum(cs[i]) THEN cs[i] ELSE " "])))

\* fuzz.ratio on processed strings, 0..100: 2 * matches / (len1 + len2); on the
\* names of the model the matched characters are a longest common subsequence
Ratio(a, b) ==
    IF a = b THEN 100
    ELSE IF Len(a) = 0 \/ Len(b) = 0 THEN 0
    ELSE RoundDiv(200 * LCS(a, b), Len(a) + Len(b))

\* a list whose elements are computed once, when the list is built
List(f) == SelectSeq(f, LAMBDA x : TRUE)

\* sorted(seq, key=..., reverse=True), keys[i] the key of seq[i]: stable, the
\* larger key first
StableSortDesc(seq, keys) ==
    LET n == Len(seq)
        key == List(keys)
        pos(i) == 1 + Cardinality({j \in 1..n :
                          \/ key[j] > key[i]
                          \/ key[j] = key[i] /\ j < i})
    IN  IF n = 0 THEN <<>>
        ELSE List([p \in 1..n |-> seq[CHOOSE i \in 1..n : pos(i) = p]])

Take(seq, n) == SubSeq(seq, 1, Min(n, Len(seq)))

\* process.extract(drug_name, drug_list, limit=5, scorer=fuzz.ratio): the five
\* best (name, score), equal scores in the order of drug_list
BestScored(scored, limit) ==
    Take(StableSortDesc(scored, [i \in 1..Len(scored) |-> scored[i].score]), limit)

\* the scorer of process.extract on query and choice, both passed through
\* full_process, tabulated for the queries and the choices of the model
ProcessedRatioTable ==
    [query \in {CleanDrugName(raw) : raw \in EngineNameUniverse} |->
        [choice \in AllStrings |-> Ratio(FullProcess(query), FullProcess(Chars(choice)))]]

FuzzyScores(query, names) ==
    [i \in 1..Len(names) |->
        [name |-> names[i], score |-> ProcessedRatioTable[query][names[i]]]]

FuzzyExtract(drug_name, names) ==
    BestScored(List(FuzzyScores(drug_name, names)), FuzzyLimit)

\* the words of a blank-separated name
RECURSIVE SplitBlank(_, _)
SplitBlank(cs, word) ==
    IF cs = <<>> THEN (IF word = <<>> THEN <<>> ELSE <<word>>)
    ELSE IF Head(cs) = " "
         THEN (IF word = <<>> THEN <<>> ELSE <<word>>) \o SplitBlank(Tail(cs), <<>>)
         ELSE SplitBlank(Tail(cs), Append(word, Head(cs)))

\* cosine similarity (percent) of the query's TF-IDF vector and the vector of
\* the indexed name: every indexed name is one word of two or more characters,
\* so its vector is the unit vector of that word; a query with one indexed
\* word among its words has that same unit vector, a query with none the zero
\* vector.  Queries with several indexed words are outside the model.
TfidfSimilarity(drug_name, name, names) ==
    LET words == {w \in SeqToSet(SplitBlank(drug_name, <<>>)) : Len(w) >= 2}
        known == {w \in words : \E i \in 1..Len(names) : Chars(names[i]) = w}
    IN  CASE known = {}              -> 0
          [] Cardinality(known) = 1  -> IF Chars(name) \in known THEN 100 ELSE 0

\* _tfidf_matching
TfidfMatching(drug_name, threshold, names) ==
    LET all == [i \in 1..Len(names) |->
                   [matched_name |-> names[i],
                    confidence |-> TfidfSimilarity(drug_name, names[i], names),
                    method |-> "tfidf"]]
    IN  SelectSeq(all, LAMBDA m : m.confidence >= threshold)

\* cosine similarity (percent) of the embeddings of two texts.  The embedding
\* model is external: "strict" separates all different texts, "loose" finds
\* every two drug names similar.
EmbeddingSimilarity(model, a, b) ==
    IF a = b THEN 100 ELSE IF model = "loose" THEN 90 ELSE 0

\* whether _get_embedding raises: the "failing" model loaded but cannot embed
EmbeddingRaises(model) == model = "failing"

\* the candidates of _semantic_matching when no embedding call raises
SemanticCandidates(drug_name, threshold, names, model) ==
    LET candidate_names == Take(names, SemanticLimit)
        all == [i \in 1..Len(candidate_names) |->
                   [matched_name |-> candidate_names[i],
                    confidence |-> EmbeddingSimilarity(model, drug_name,
                                                       Chars(candidate_names[i])),
                    method |-> "semantic"]]
    IN  SelectSeq(all, LAMBDA m : m.confidence >= threshold)

\* _semantic_matching without its except clause having any effect: the model
\* that raises still contributes candidates
SemanticMatchingAnyway(drug_name, threshold, names, model) ==
    SemanticCandidates(drug_name, threshold, names,
                       IF EmbeddingRaises(model) THEN "loose" ELSE model)

\* _semantic_matching: the first embedding call that raises is caught and the
\* method returns no match
SemanticMatching(drug_name, threshold, names, model) ==
    IF EmbeddingRaises(model) THEN <<>>
    ELSE SemanticCandidates(drug_name, threshold, names, model)

\* unique_matches filled with `>=` in place of `>`: on equal confidence the
\* match put in last replaces the one already there
RECURSIVE UniqueMatchesLastWins(_, _)
UniqueMatchesLastWins(matches, acc) ==
    IF matches = <<>> THEN acc
    ELSE LET m == Head(matches)
             at == {i \in 1..Len(acc) : acc[i].matched_name = m.matched_name}
         IN  IF at = {} THEN UniqueMatchesLastWins(Tail(matches), Append(acc, m))
             ELSE LET i == CHOOSE k \in at : TRUE
                  IN  IF m.confidence >= acc[i].confidence
                      THEN UniqueMatchesLastWins(Tail(matches), [acc EXCEPT ![i] = m])
                      ELSE UniqueMatchesLastWins(Tail(matches), acc)

\* the dictionary unique_matches after the matches were put in one by one: a
\* name keeps the place of its first match, and the match of greater confidence
RECURSIVE UniqueMatches(_, _)
UniqueMatches(matches, acc) ==
    IF matches = <<>> THEN acc
    ELSE LET m == Head(matches)
             at == {i \in 1..Len(acc) : acc[i].matched_name = m.matched_name}
         IN  IF at = {} THEN UniqueMatches(Tail(matches), Append(acc, m))
             ELSE LET i == CHOOSE k \in at : TRUE
                  IN  IF m.confidence > acc[i].confidence
                      THEN UniqueMatches(Tail(matches), [acc EXCEPT ![i] = m])
                      ELSE UniqueMatches(Tail(matches), acc)

\* the matches made of the (name, score) pairs process.extract returned
FuzzyMatches(extracted, threshold) ==
    SelectSeq([i \in 1..Len(extracted) |->
                  [matched_name |-> extracted[i].name,
                   confidence |-> extracted[i].score, method |-> "fuzzy"]],
              LAMBDA m : m.confidence >= threshold)

\* the exact match of _find_best_matches: drug_name in self.drug_names_cache
ExactMatch(drug_name, cache) ==
    IF \E key \in DOMAIN cache : Chars(key) = drug_name
    THEN <<[matched_name |-> StrOf(drug_name), confidence |-> 100, method |-> "exact"]>>
    ELSE <<>>

\* _find_best_matches
FindBestMatches(drug_name, threshold, names, cache, nlp, model) ==
    LET exact == ExactMatch(drug_name, cache)
        fuzzy_matches == FuzzyMatches(FuzzyExtract(drug_name, names), threshold)
        tfidf_matches == IF names # <<>> THEN TfidfMatching(drug_name, threshold, names)
                         ELSE <<>>
        semantic_matches == IF nlp THEN SemanticMatching(drug_name, threshold, names, model)
                            ELSE <<>>
    IN  UniqueMatches(exact \o fuzzy_matches \o tfidf_matches \o semantic_matches, <<>>)

\* the DrugMatch built for one match: drug_names_cache.get(matched_name.lower(), {})
MkDrugMatch(name, m, cache) ==
    LET key == LowerStr(m.matched_name)
    IN  [drug_name |-> name, matched_name |-> m.matched_name, confidence |-> m.confidence,
         drug_id |-> IF key \in DOMAIN cache THEN cache[key].drug_id ELSE NoId,
         generic_name |-> IF key \in DOMAIN cache THEN cache[key].generic_name ELSE ""]

\* a variant that keeps every match
DeduplicateMatchesKeepAll(matches, seen_ids) == matches

\* _deduplicate_matches: the first match of each drug_id, and every match without one
RECURSIVE DeduplicateMatches(_, _)
DeduplicateMatches(matches, seen_ids) ==
    IF matches = <<>> THEN <<>>
    ELSE LET m == Head(matches)
         IN  IF m.drug_id # NoId /\ m.drug_id \notin seen_ids
             THEN <<m>> \o DeduplicateMatches(Tail(matches), seen_ids \cup {m.drug_id})
             ELSE IF m.drug_id = NoId
             THEN <<m>> \o DeduplicateMatches(Tail(matches), seen_ids)
             ELSE DeduplicateMatches(Tail(matches), seen_ids)

\* the DrugMatch of every match found for one name
DrugMatchesOf(name, best_matches, cache) ==
    List([i \in 1..Len(best_matches) |-> MkDrugMatch(name, best_matches[i], cache)])

\* the matches one name adds to matched_drugs
MatchOne(name, threshold, names, cache, nlp, model) ==
    IF RawLen(name) < 2 THEN <<>>
    ELSE DrugMatchesOf(name,
                       FindBestMatches(CleanDrugName(name), threshold, names, cache, nlp,
                                       model),
                       cache)

\* the loop of match_drug_names over extracted_names
RECURSIVE MatchLoop(_, _, _, _, _, _)
MatchLoop(extracted_names, threshold, names, cache, nlp, model) ==
    IF extracted_names = <<>> THEN <<>>
    ELSE MatchOne(Head(extracted_names), threshold, names, cache, nlp, model)
            \o MatchLoop(Tail(extracted_names), threshold, names, cache, nlp, model)

\* sorted(unique_matches, key=lambda x: x.confidence, reverse=True)
SortByConfidence(unique_matches) ==
    StableSortDesc(unique_matches,
                   [i \in 1..Len(unique_matches) |-> unique_matches[i].confidence])

\* match_drug_names
MatchDrugNames(extracted_names, threshold, names, cache, nlp, model) ==
    SortByConfidence(
        DeduplicateMatches(MatchLoop(extracted_names, threshold, names, cache, nlp, model),
                           {}))

------------------------------------------------------------------------------
(* InteractionDetector *)

\* whether the module binds the name drug_interaction_association the pair query
\* mentions: it is neither defined nor imported, so evaluating the query raises
\* NameError inside the try block
drug_interaction_association_bound == FALSE

\* the engine's severity_scores and evidence_scores, in tenths
EngineSeverityScores(severity) ==
    CASE severity = "critical" -> 10
      [] severity = "major"    -> 8
      [] severity = "moderate" -> 6
      [] severity = "minor"    -> 3
      [] OTHER                 -> 5

EngineEvidenceScores(evidence_level) ==
    CASE evidence_level = "established" -> 10
      [] evidence_level = "probable"    -> 8
      [] evidence_level = "theoretical" -> 5
      [] OTHER                          -> 5

\* engine risk scores are counted in 1/2000: tenths, halved, times percent
EngineRiskScale == 2 * 10 * 100

\* engine alert confidences are counted in 1/1000: percent times tenths
EngineConfidenceScale == 100 * 10

EngineRiskUnclamped(severity, evidence_level, confidence) ==
    (EngineSeverityScores(severity) + EngineEvidenceScores(evidence_level)) * confidence

\* _calculate_risk_score: .lower() of an absent severity or evidence_level raises
EngineCalculateRiskScore(severity, evidence_level, confidence) ==
    IF severity = NULL \/ evidence_level = NULL
    THEN [raised |-> TRUE, risk_score |-> 0]
    ELSE [raised |-> FALSE,
          risk_score |-> Min(EngineRiskUnclamped(severity, evidence_level, confidence),
                             EngineRiskScale)]

\* _severity_score
SeverityScore(severity) ==
    CASE severity = "critical" -> 4
      [] severity = "major"    -> 3
      [] severity = "moderate" -> 2
      [] severity = "minor"    -> 1
      [] OTHER                 -> 0

\* the alerts of the loop over the queried interactions: an exception ends the
\* loop and keeps the alerts appended so far
RECURSIVE DbAlerts(_, _, _)
DbAlerts(interactions, drug1, drug2) ==
    IF interactions = <<>> THEN <<>>
    ELSE LET interaction == Head(interactions)
             confidence == Min(drug1.confidence, drug2.confidence)
             risk == EngineCalculateRiskScore(interaction.severity,
                                              interaction.evidence_level, confidence)
         IN  IF risk.raised THEN <<>>
             ELSE <<[drug1 |-> drug1.matched_name, drug2 |-> drug2.matched_name,
                     severity |-> interaction.severity,
                     confidence |-> 10 * confidence,
                     risk_score |-> risk.risk_score,
                     source |-> IF interaction.source = NULL THEN "database"
                                ELSE interaction.source]>>
                  \o DbAlerts(Tail(interactions), drug1, drug2)

\* the rule of _predict_potential_interactions
SameDrugClass(drug1_info, drug2_info) ==
    /\ drug1_info.drug_class # NULL
    /\ drug2_info.drug_class # NULL
    /\ drug1_info.drug_class = drug2_info.drug_class

\* _predict_potential_interactions
PredictPotentialInteractions(db, drug1, drug2) ==
    LET found1 == {d \in db.drugs : d.id = drug1.drug_id}
        found2 == {d \in db.drugs : d.id = drug2.drug_id}
    IN  IF ~db.available THEN <<>>
        ELSE IF found1 = {} \/ found2 = {} THEN <<>>
        ELSE IF SameDrugClass(CHOOSE d \in found1 : TRUE, CHOOSE d \in found2 : TRUE)
        THEN <<[drug1 |-> drug1.matched_name, drug2 |-> drug2.matched_name,
                severity |-> "moderate",
                confidence |-> 7 * Min(drug1.confidence, drug2.confidence),
                risk_score |-> EngineRiskScale \div 2,
                source |-> "ml_prediction"]>>
        ELSE <<>>

\* _check_drug_pair_interaction
CheckDrugPairInteraction(db, drug1, drug2) ==
    IF drug1.drug_id = NoId \/ drug2.drug_id = NoId THEN <<>>
    ELSE LET queried == {i \in db.interactions : i.drugs \cap {drug1.drug_id, drug2.drug_id} # {}}
             alerts == IF drug_interaction_association_bound /\ db.available
                       THEN DbAlerts(OrderById(queried), drug1, drug2)
                       ELSE <<>>
         IN  IF alerts = <<>> THEN PredictPotentialInteractions(db, drug1, drug2)
             ELSE alerts

\* the two loops of _get_drug_pairs from (i, j) on, as positions in drugs
RECURSIVE DrugPairsFrom(_, _, _)
DrugPairsFrom(i, j, n) ==
    IF i > n THEN <<>>
    ELSE IF j > n THEN DrugPairsFrom(i + 1, i + 2, n)
    ELSE <<<<i, j>>>> \o DrugPairsFrom(i, j + 1, n)

\* _get_drug_pairs with range(len(drugs)) as its inner range: every ordered
\* pair of positions, a position with itself included
GetDrugPairsFullRange(drugs) ==
    LET n == Len(drugs)
    IN  [k \in 1..(n * n) |-> <<((k - 1) \div n) + 1, ((k - 1) % n) + 1>>]

\* _get_drug_pairs: the pairs (drugs[i], drugs[j]), as pairs of positions
GetDrugPairs(drugs) == DrugPairsFrom(1, 2, Len(drugs))

\* the loop of detect_interactions over drug_pairs, from the k-th pair on
RECURSIVE PairAlerts(_, _, _, _)
PairAlerts(db, drugs, drug_pairs, k) ==
    IF k > Len(drug_pairs) THEN <<>>
    ELSE CheckDrugPairInteraction(db, drugs[drug_pairs[k][1]], drugs[drug_pairs[k][2]])
            \o PairAlerts(db, drugs, drug_pairs, k + 1)

\* the sort key (_severity_score(severity), risk_score) as one number
AlertKey(a) == SeverityScore(a.severity) * (EngineRiskScale + 1) + a.risk_score

\* alerts.sort(key=..., reverse=True)
SortEngineAlerts(alerts) ==
    StableSortDesc(alerts, [i \in 1..Len(alerts) |-> AlertKey(alerts[i])])

\* detect_interactions once the names are matched
DetectFrom(db, matched_drugs) ==
    [matched |-> matched_drugs,
     pairs |-> IF Len(matched_drugs) < 2 THEN <<>> ELSE GetDrugPairs(matched_drugs),
     alerts |-> IF Len(matched_drugs) < 2 THEN <<>>
                ELSE SortEngineAlerts(PairAlerts(db, matched_drugs,
                                                 GetDrugPairs(matched_drugs), 1))]

\* detect_interactions
DetectInteractions(db, names, nlp, model, drug_names) ==
    DetectFrom(db, MatchDrugNames(drug_names, DefaultThreshold, names,
                                  db.drug_names_cache, nlp, model))

\* a.severity.lower(), for the spellings of the four severities
SeverityLower(severity) ==
    CASE severity \in {"Critical", "CRITICAL"} -> "critical"
      [] severity \in {"Major", "MAJOR"}       -> "major"
      [] severity \in {"Moderate", "MODERATE"} -> "moderate"
      [] severity \in {"Minor", "MINOR"}       -> "minor"
      [] OTHER                                 -> severity

\* a variant that does not test the severity
AlertsOfSeverityUnfiltered(alerts, name) == alerts

\* [a for a in alerts if a.severity.lower() == name]
AlertsOfSeverity(alerts, name) ==
    SelectSeq(alerts, LAMBDA a : SeverityLower(a.severity) = name)

\* detect_drug_interactions: total_interactions and the four lists of 'alerts'
\* in the result built from the sorted alerts
SeverityView(alerts) ==
    [total_interactions |-> Len(alerts),
     critical |-> AlertsOfSeverity(alerts, "critical"),
     major    |-> AlertsOfSeverity(alerts, "major"),
     moderate |-> AlertsOfSeverity(alerts, "moderate"),
     minor    |-> AlertsOfSeverity(alerts, "minor")]

------------------------------------------------------------------------------
(* DrugStandardizationService and the ExternalAPIService it queries *)

\* common_mappings, the rows whose key a name of the model spells
common_mappings == [n \in {"advil"} |-> "ibuprofen"]

\* drug_name.lower().strip()
NormalizeName(drug_name) == StrOf(RStrip(LStrip(Lower(Chars(drug_name)))))

\* cache[key] = value on a dict kept as a function
Store(cache, key, value) ==
    [k \in DOMAIN cache \cup {key} |-> IF k = key THEN value ELSE cache[k]]

\* get_rxnorm_data: a cached answer is returned without a request; an answer
\* is cached only when the drug was found.  rxnorm is what RxNorm does with a
\* request: "found", or "error" for not found and for a failed request.
GetRxnormData(cache, drug_name, rxnorm) ==
    LET cache_key == <<"rxnorm", LowerStr(drug_name)>>
        result == [error |-> FALSE, name |-> drug_name]
    IN  IF cache_key \in DOMAIN cache
        THEN [data |-> cache[cache_key], cache |-> cache, requests |-> 0]
        ELSE IF rxnorm = "found"
        THEN [data |-> result, cache |-> Store(cache, cache_key, result), requests |-> 1]
        ELSE [data |-> [error |-> TRUE, name |-> NULL], cache |-> cache, requests |-> 1]

\* search_fda_drug: every parsed answer of status 200 is cached, "No results
\* found" included; an answer of another status and a failed request are not.
\* fda is what the FDA API does with a request: "found", "noresults", "failed".
SearchFdaDrug(cache, drug_name, fda) ==
    LET cache_key == <<"fda", LowerStr(drug_name)>>
        result == [error |-> fda # "found",
                   name |-> IF fda = "found" THEN drug_name ELSE NULL]
    IN  IF cache_key \in DOMAIN cache
        THEN [data |-> cache[cache_key], cache |-> cache, requests |-> 0]
        ELSE IF fda = "failed"
        THEN [data |-> result, cache |-> cache, requests |-> 1]
        ELSE [data |-> result, cache |-> Store(cache, cache_key, result), requests |-> 1]

\* the value standardize_drug_name builds from an answer of a source
Standardized(data, source) ==
    [standard_name |-> data.name, source |-> source, standardized |-> TRUE]

\* the value it builds when no source answered
NotStandardized(drug_name) ==
    [standard_name |-> drug_name, source |-> "input", standardized |-> FALSE]

\* standardize_drug_name once the cache was missed: RxNorm first, the FDA next,
\* the input name last; each result is stored under drug_name.lower()
StandardizeUncached(dcache, drug_name, rx, fda) ==
    IF ~rx.data.error
    THEN [result |-> Standardized(rx.data, "rxnorm"),
          drug_cache |-> Store(dcache, LowerStr(drug_name), Standardized(rx.data, "rxnorm")),
          api_cache |-> rx.cache, requests |-> rx.requests]
    ELSE IF ~fda.data.error
    THEN [result |-> Standardized(fda.data, "fda"),
          drug_cache |-> Store(dcache, LowerStr(drug_name), Standardized(fda.data, "fda")),
          api_cache |-> fda.cache, requests |-> rx.requests + fda.requests]
    ELSE [result |-> NotStandardized(drug_name),
          drug_cache |-> Store(dcache, LowerStr(drug_name), NotStandardized(drug_name)),
          api_cache |-> fda.cache, requests |-> rx.requests + fda.requests]

\* the name the sources are asked about
QueryName(normalized_name) ==
    IF normalized_name \in DOMAIN common_mappings THEN common_mappings[normalized_name]
    ELSE normalized_name

\* standardize_drug_name
StandardizeDrugName(dcache, acache, drug_name, rxnorm, fda) ==
    IF NormalizeName(drug_name) \in DOMAIN dcache
    THEN [result |-> dcache[NormalizeName(drug_name)], drug_cache |-> dcache,
          api_cache |-> acache, requests |-> 0]
    ELSE StandardizeUncached(
             dcache, drug_name,
             GetRxnormData(acache, QueryName(NormalizeName(drug_name)), rxnorm),
             SearchFdaDrug(GetRxnormData(acache, QueryName(NormalizeName(drug_name)),
                                         rxnorm).cache,
                           QueryName(NormalizeName(drug_name)), fda))

------------------------------------------------------------------------------
(* The service under one caller *)

RECURSIVE ListsUpTo(_, _)
ListsUpTo(S, n) ==
    IF n = 0 THEN {<<>>}
    ELSE LET prev == ListsUpTo(S, n - 1)
         IN prev \cup {Append(l, x) : l \in {p \in prev : Len(p) = n - 1}, x \in S}

NameLists == ListsUpTo(NameUniverse, MaxNames)

\* the medication_ids a caller passes (none, or two of the user's medications)
MedicationIdLists == {<<>>, <<2, 3>>}

\* the user_id a caller passes (none, or user 1)
UserIds == {NoId, 1}

NoCall == [medication_ids |-> <<>>, drug_names |-> <<>>, user_id |-> NoId]
NoRet == [status |-> "none", alerts |-> <<>>]

NoECall ==
    [op |-> "none", drug_names |-> <<>>, severity |-> NULL, evidence_level |-> NULL,
     confidence |-> 0]
NoERet ==
    [matched |-> <<>>, pairs |-> <<>>, alerts |-> <<>>, view |-> SeverityView(<<>>),
     raised |-> FALSE, risk_score |-> 0]

\* no call in progress on the service
ServiceIdle ==
    /\ pc = "idle"
    /\ call = NoCall
    /\ medications = <<>>
    /\ queries = {}
    /\ ret = NoRet

\* no call in progress on the engine
EngineIdle ==
    /\ epc = "idle"
    /\ ecall = NoECall
    /\ eret = NoERet

\* DrugStandardizationService.__init__ and ExternalAPIService.__init__
StandardizationEmpty ==
    /\ drug_cache = <<>>
    /\ api_cache = <<>>
    /\ calls = <<>>

\* no thread in load_drug_database or match_drug_names
NoSeen == [cache1 |-> <<>>, list1 |-> <<>>, vectors |-> <<>>, list2 |-> <<>>,
           cache2 |-> <<>>]

ReloadIdle ==
    /\ drug_vectors = <<>>
    /\ lpc = "idle"
    /\ lfilled = {}
    /\ qpc = "idle"
    /\ qname = NULL
    /\ qseen = NoSeen
    /\ qret = <<>>

\* no upload_and_scan_prescription request in progress, an empty scans table
NoScan == [id |-> NoId, processing_status |-> NULL, error_message |-> NULL]
NoUpload == [file |-> NULL, check_interactions |-> FALSE, medications |-> FALSE,
             raised |-> "none", commit_failed |-> FALSE]
NoUResp == [success |-> FALSE, scan_id |-> NoId, error |-> NULL]

ScansIdle ==
    /\ scans = <<>>
    /\ scan = NoScan
    /\ upc = "idle"
    /\ upload = NoUpload
    /\ uresp = NoUResp

\* the requests add_drug_interaction can be serving at the same time
Requests == {1, 2}

\* no add_drug_interaction request in progress, an empty table
NoAReq == [user |-> NULL, drug1 |-> NULL, drug2 |-> NULL]
NoAResp == [raised |-> 0, status |-> 0, added |-> FALSE]

AdminIdle ==
    /\ interaction_rows = {}
    /\ apc = [r \in Requests |-> "idle"]
    /\ areq = [r \in Requests |-> NoAReq]
    /\ aresp = [r \in Requests |-> NoAResp]
    /\ areqs = 0

\* the standardize_drug_name calls that can be running at the same time
Callers == {1, 2}

\* ExternalAPIService.__init__: self.session = None; no call running
SessionsIdle ==
    /\ session = NoId
    /\ sessions = <<>>
    /\ cpc = [c \in Callers |-> "idle"]
    /\ copened = [c \in Callers |-> NoId]
    /\ cuses = [c \in Callers |-> {}]

\* no request in progress on the endpoints and the shared services
HandlersIdle ==
    /\ ScansIdle
    /\ AdminIdle
    /\ SessionsIdle

\* an engine constructed over an empty drugs table
EngineEmpty ==
    /\ edb = [drugs |-> {}, interactions |-> {}, available |-> TRUE,
              drug_names_cache |-> <<>>]
    /\ drug_list = <<>>
    /\ nlp_available = FALSE
    /\ embedding = "strict"
    /\ EngineIdle

Init ==
    /\ drug_interactions \in Catalogs
    /\ ServiceIdle
    /\ EngineEmpty
    /\ StandardizationEmpty
    /\ HandlersIdle
    /\ ReloadIdle

\* await interaction_service.check_interactions(db, medication_ids, drug_names, user_id)
DoCheckInteractions ==
    /\ pc = "idle"
    /\ epc = "idle"
    /\ \E ids \in MedicationIdLists, names \in NameLists, user \in UserIds :
          \E r \in {CheckInteractions(drug_interactions, ids, names, user)} :
              /\ call' = [medication_ids |-> ids, drug_names |-> names, user_id |-> user]
              /\ medications' = r.medications
              /\ queries' = r.queries
              /\ ret' = [status |-> r.status, alerts |-> r.alerts]
    /\ pc' = "done"
    /\ UNCHANGED <<hvars, drug_interactions, evars, xvars, rvars>>

\* the caller takes the result; the service is ready for the next call
Return ==
    /\ pc = "done"
    /\ pc' = "idle"
    /\ call' = NoCall
    /\ medications' = <<>>
    /\ queries' = {}
    /\ ret' = NoRet
    /\ UNCHANGED <<hvars, drug_interactions, evars, xvars, rvars>>

Next == DoCheckInteractions \/ Return

Spec == Init /\ [][Next]_vars

------------------------------------------------------------------------------
(* The engine under one caller *)

EngineNameLists == ListsUpTo(EngineNameUniverse, MaxNames)

\* the values load_drug_database can leave in drug_list
LoadedOrders(db) == IF db.available THEN Orders(AllDrugNames(db.drugs)) ELSE {<<>>}

\* DrugNameMatcher.__init__ and InteractionDetector.__init__ over a database
\* that answers queries or not: when it does, drug_list is one of the orders of
\* the set of names; when it does not, load_drug_database catches the error
\* and leaves drug_list and drug_names_cache empty.  The embedding model loads
\* or not, and a loaded model may fail when it is asked for an embedding.
InitEngine ==
    /\ drug_interactions = {}
    /\ ServiceIdle
    /\ \E class3 \in {NULL, "anticoagulant"} :
          \E interactions \in {{}, EngineInteractionUniverse} :
             \E available \in BOOLEAN :
                edb = [drugs |-> EngineDrugs(class3), interactions |-> interactions,
                       available |-> available,
                       drug_names_cache |-> IF available
                                            THEN DrugNamesCache(EngineDrugs(class3))
                                            ELSE <<>>]
    /\ drug_list \in LoadedOrders(edb)
    /\ nlp_available \in BOOLEAN
    /\ embedding \in IF nlp_available THEN {"strict", "loose", "failing"} ELSE {"strict"}
    /\ EngineIdle
    /\ StandardizationEmpty
    /\ HandlersIdle
    /\ ReloadIdle

\* detect_drug_interactions(drug_names): detector.detect_interactions(drug_names)
\* and the result built from its alerts
DoDetectInteractions ==
    /\ pc = "idle"
    /\ epc = "idle"
    /\ \E names \in EngineNameLists :
          \E r \in {DetectInteractions(edb, drug_list, nlp_available, embedding, names)} :
              /\ ecall' = [NoECall EXCEPT !.op = "detect_interactions", !.drug_names = names]
              /\ eret' = [NoERet EXCEPT !.matched = r.matched, !.pairs = r.pairs,
                                        !.alerts = r.alerts,
                                        !.view = SeverityView(r.alerts)]
    /\ epc' = "done"
    /\ UNCHANGED <<hvars, svars, edb, drug_list, nlp_available, embedding, xvars, rvars>>

\* the severities, evidence levels and confidences _calculate_risk_score is given
RiskSeverities == {"critical", "major", "moderate", "minor", "severe", NULL}
RiskEvidenceLevels == {"established", "probable", "theoretical", "anecdotal", NULL}
RiskConfidences == {0, 70, 75, 100}

\* detector._calculate_risk_score(severity, evidence_level, confidence)
DoCalculateRiskScore ==
    /\ pc = "idle"
    /\ epc = "idle"
    /\ \E severity \in RiskSeverities, evidence_level \in RiskEvidenceLevels,
          confidence \in RiskConfidences :
          LET r == EngineCalculateRiskScore(severity, evidence_level, confidence)
          IN  /\ ecall' = [NoECall EXCEPT !.op = "_calculate_risk_score",
                                          !.severity = severity,
                                          !.evidence_level = evidence_level,
                                          !.confidence = confidence]
              /\ eret' = [NoERet EXCEPT !.raised = r.raised, !.risk_score = r.risk_score]
    /\ epc' = "done"
    /\ UNCHANGED <<hvars, svars, edb, drug_list, nlp_available, embedding, xvars, rvars>>

\* the caller takes the engine's result
EReturn ==
    /\ epc = "done"
    /\ epc' = "idle"
    /\ ecall' = NoECall
    /\ eret' = NoERet
    /\ UNCHANGED <<hvars, svars, edb, drug_list, nlp_available, embedding, xvars, rvars>>

NextEngine == DoDetectInteractions \/ EReturn

SpecEngine == InitEngine /\ [][NextEngine]_vars

------------------------------------------------------------------------------
(* The matcher over the large drugs table *)

InitMatch ==
    /\ drug_interactions = {}
    /\ ServiceIdle
    /\ edb = [drugs |-> EngineDrugsLarge, interactions |-> {}, available |-> TRUE,
              drug_names_cache |-> DrugNamesCache(EngineDrugsLarge)]
    /\ drug_list \in LoadedOrders(edb)
    /\ nlp_available = FALSE
    /\ embedding = "strict"
    /\ EngineIdle
    /\ StandardizationEmpty
    /\ HandlersIdle
    /\ ReloadIdle

\* matcher._find_best_matches(matcher._clean_drug_name(name), 0.7)
DoFindBestMatches ==
    /\ pc = "idle"
    /\ epc = "idle"
    /\ \E name \in EngineNameUniverse :
          /\ ecall' = [NoECall EXCEPT !.op = "_find_best_matches", !.drug_names = <<name>>]
          /\ eret' = [NoERet EXCEPT
                         !.matched = FindBestMatches(CleanDrugName(name), DefaultThreshold,
                                                     drug_list, edb.drug_names_cache,
                                                     nlp_available, embedding)]
    /\ epc' = "done"
    /\ UNCHANGED <<hvars, svars, edb, drug_list, nlp_available, embedding, xvars, rvars>>

NextMatch == DoFindBestMatches \/ EReturn

SpecMatch == InitMatch /\ [][NextMatch]_vars

------------------------------------------------------------------------------
(* One thread in load_drug_database while another is in match_drug_names,    *)
(* on the same DrugNameMatcher.  The matcher was built over the old drugs    *)
(* table; the table has changed since.  A step is one read or one write of   *)
(* an attribute of the matcher (the cache is filled drug by drug).           *)

\* the drugs table when the matcher was built, and now
ReloadOldDrugs == {d \in EngineDrugs(NULL) : d.id = 1}
ReloadNewDrugs == EngineDrugs(NULL)

\* the names match_drug_names is called with
ReloadNameUniverse == {"warf", "Coum", "aspi 5mg"}

InitReload ==
    /\ drug_interactions = {}
    /\ ServiceIdle
    /\ edb = [drugs |-> ReloadNewDrugs, interactions |-> {}, available |-> TRUE,
              drug_names_cache |-> DrugNamesCache(ReloadOldDrugs)]
    /\ drug_list \in Orders(AllDrugNames(ReloadOldDrugs))
    /\ nlp_available = FALSE
    /\ embedding = "strict"
    /\ EngineIdle
    /\ StandardizationEmpty
    /\ HandlersIdle
    /\ drug_vectors = drug_list
    /\ lpc = "idle"
    /\ lfilled = {}
    /\ qpc = "idle"
    /\ qname = NULL
    /\ qseen = NoSeen
    /\ qret = <<>>

\* load_drug_database: drugs = self.db.query(Drug).all(); all_drug_names = [];
\* self.drug_names_cache = {}
LoadStart ==
    /\ lpc = "idle"
    /\ lpc' = "filling"
    /\ lfilled' = {}
    /\ edb' = [edb EXCEPT !.drug_names_cache = <<>>]
    /\ UNCHANGED <<hvars, svars, drug_list, nlp_available, embedding, epc, ecall, eret, xvars,
                   drug_vectors, qpc, qname, qseen, qret>>

\* one turn of `for drug in drugs`: the generic name and the brand names of the
\* next drug are put in the cache
LoadFill ==
    /\ lpc = "filling"
    /\ \E d \in edb.drugs :
          /\ d.id \notin lfilled
          /\ \A o \in edb.drugs : o.id < d.id => o.id \in lfilled
          /\ lfilled' = lfilled \cup {d.id}
          /\ edb' = [edb EXCEPT !.drug_names_cache =
                        DrugNamesCache({o \in edb.drugs : o.id \in lfilled \cup {d.id}})]
    /\ UNCHANGED <<hvars, svars, drug_list, nlp_available, embedding, epc, ecall, eret, xvars,
                   drug_vectors, lpc, qpc, qname, qseen, qret>>

\* self.drug_list = list(set(all_drug_names))
LoadList ==
    /\ lpc = "filling"
    /\ \A d \in edb.drugs : d.id \in lfilled
    /\ drug_list' \in Orders(AllDrugNames(edb.drugs))
    /\ lpc' = "listed"
    /\ UNCHANGED <<hvars, svars, edb, nlp_available, embedding, epc, ecall, eret, xvars,
                   drug_vectors, lfilled, qpc, qname, qseen, qret>>

\* self.drug_vectors = self.vectorizer.fit_transform(self.drug_list)
LoadVectors ==
    /\ lpc = "listed"
    /\ drug_vectors' = drug_list
    /\ lpc' = "done"
    /\ UNCHANGED <<hvars, svars, evars, xvars, lfilled, qpc, qname, qseen, qret>>

\* match_drug_names([name]) begins: the length test, _clean_drug_name
QueryStart ==
    /\ qpc = "idle"
    /\ \E name \in ReloadNameUniverse : qname' = name
    /\ qpc' = "exact"
    /\ UNCHANGED <<hvars, svars, evars, xvars, drug_vectors, lpc, lfilled, qseen, qret>>

\* _find_best_matches: `drug_name in self.drug_names_cache`
QueryExact ==
    /\ qpc = "exact"
    /\ qseen' = [qseen EXCEPT !.cache1 = edb.drug_names_cache]
    /\ qpc' = "fuzzy"
    /\ UNCHANGED <<hvars, svars, evars, xvars, drug_vectors, lpc, lfilled, qname, qret>>

\* process.extract(drug_name, self.drug_list, ...)
QueryFuzzy ==
    /\ qpc = "fuzzy"
    /\ qseen' = [qseen EXCEPT !.list1 = drug_list]
    /\ qpc' = "tfidf"
    /\ UNCHANGED <<hvars, svars, evars, xvars, drug_vectors, lpc, lfilled, qname, qret>>

\* _tfidf_matching: cosine_similarity(query_vector, self.drug_vectors)
QueryTfidfVectors ==
    /\ qpc = "tfidf"
    /\ qseen' = [qseen EXCEPT !.vectors = drug_vectors]
    /\ qpc' = "tfidf_names"
    /\ UNCHANGED <<hvars, svars, evars, xvars, drug_vectors, lpc, lfilled, qname, qret>>

\* _tfidf_matching: self.drug_list[i] for the rows at or above the threshold
QueryTfidfNames ==
    /\ qpc = "tfidf_names"
    /\ qseen' = [qseen EXCEPT !.list2 = drug_list]
    /\ qpc' = "build"
    /\ UNCHANGED <<hvars, svars, evars, xvars, drug_vectors, lpc, lfilled, qname, qret>>

\* the matches of _tfidf_matching when the similarities were computed on the
\* rows of vectors and the names were read from names: row i is given the name
\* names[i]; a row past the end of names raises IndexError, which the method
\* catches, returning no match
TfidfOver(drug_name, threshold, vectors, names) ==
    LET rows == {i \in 1..Len(vectors) :
                    TfidfSimilarity(drug_name, vectors[i], vectors) >= threshold}
    IN  IF \E i \in rows : i > Len(names) THEN <<>>
        ELSE SelectSeq([i \in 1..Len(vectors) |->
                          [matched_name |-> IF i <= Len(names) THEN names[i] ELSE NULL,
                           confidence |-> TfidfSimilarity(drug_name, vectors[i], vectors),
                           method |-> "tfidf"]],
                       LAMBDA m : m.confidence >= threshold)

\* the matches match_drug_names returns from what it read
MatchesFromSeen(name, seen) ==
    SortByConfidence(
        DeduplicateMatches(
            DrugMatchesOf(name,
                          UniqueMatches(
                              ExactMatch(CleanDrugName(name), seen.cache1)
                                 \o FuzzyMatches(FuzzyExtract(CleanDrugName(name), seen.list1),
                                                 DefaultThreshold)
                                 \o TfidfOver(CleanDrugName(name), DefaultThreshold,
                                              seen.vectors, seen.list2),
                              <<>>),
                          seen.cache2),
            {}))

\* match_drug_names: self.drug_names_cache.get(match['matched_name'].lower(), {})
\* for the matches found, _deduplicate_matches, sorted, return
QueryBuild ==
    /\ qpc = "build"
    /\ qseen' = [qseen EXCEPT !.cache2 = edb.drug_names_cache]
    /\ qret' = MatchesFromSeen(qname, [qseen EXCEPT !.cache2 = edb.drug_names_cache])
    /\ qpc' = "done"
    /\ UNCHANGED <<hvars, svars, evars, xvars, drug_vectors, lpc, lfilled, qname>>

NextReload ==
    \/ LoadStart \/ LoadFill \/ LoadList \/ LoadVectors
    \/ QueryStart \/ QueryExact \/ QueryFuzzy \/ QueryTfidfVectors \/ QueryTfidfNames
    \/ QueryBuild

SpecReload == InitReload /\ [][NextReload]_vars

------------------------------------------------------------------------------
(* Scoring over every combination of a record's attributes *)

\* the values a record's columns take: the keys of the score tables, a value
\* that is no key, and NULL
ScoreEvidenceLevels ==
    {"systematic_review", "clinical_trial", "observational", "case_report", "theoretical",
     "established", NULL}
ScoreDocumentations == {"excellent", "good", "fair", "poor", "unknown", NULL}
ScoreFrequencies == {"common", "rare", "occasional", NULL}
ScoreOnsets == {"rapid", "delayed", NULL}

\* the catalogs of one record on the pair (1, 2)
ScoreCatalogs ==
    {{MkRow(1, 2, [severity |-> sv, evidence_level |-> ev, documentation |-> doc,
                   frequency |-> fr, onset |-> on, source |-> NULL])} :
        sv \in SeverityLevel, ev \in ScoreEvidenceLevels, doc \in ScoreDocumentations,
        fr \in ScoreFrequencies, on \in ScoreOnsets}

InitScore ==
    /\ drug_interactions \in ScoreCatalogs
    /\ ServiceIdle
    /\ EngineEmpty
    /\ StandardizationEmpty
    /\ HandlersIdle
    /\ ReloadIdle

NextScore == DoCheckInteractions \/ Return \/ DoCalculateRiskScore \/ EReturn

SpecScore == InitScore /\ [][NextScore]_vars

------------------------------------------------------------------------------
(* The standardization service under one caller *)

\* the names passed to standardize_drug_name
StdNameUniverse == {"asa", " asa", "ASA", "advil"}

InitStd ==
    /\ drug_interactions = {}
    /\ ServiceIdle
    /\ EngineEmpty
    /\ StandardizationEmpty
    /\ HandlersIdle
    /\ ReloadIdle

\* await drug_standardization_service.standardize_drug_name(drug_name), the
\* sources answering one way or another
DoStandardizeDrugName ==
    /\ Len(calls) < MaxCalls
    /\ \E drug_name \in StdNameUniverse :
          \E rxnorm \in {"found", "error"} :
             \E fda \in {"found", "noresults", "failed"} :
                LET r == StandardizeDrugName(drug_cache, api_cache, drug_name, rxnorm, fda)
                IN  /\ drug_cache' = r.drug_cache
                    /\ api_cache' = r.api_cache
                    /\ calls' = Append(calls, [drug_name |-> drug_name,
                                               result |-> r.result,
                                               requests |-> r.requests])
    /\ UNCHANGED <<hvars, svars, evars, rvars>>

NextStd == DoStandardizeDrugName

SpecStd == InitStd /\ [][NextStd]_vars

------------------------------------------------------------------------------
(* upload_and_scan_prescription, one request at a time.  A step that calls  *)
(* the file system, the OCR service, the interaction service or the          *)
(* database either returns or raises.                                        *)

\* the uploads: an image the settings allow, and the three the validation rejects
UploadFiles == {"image", "not_image", "unsupported_type", "too_large"}

InitScan ==
    /\ drug_interactions = {}
    /\ ServiceIdle
    /\ EngineEmpty
    /\ EngineIdle
    /\ StandardizationEmpty
    /\ ReloadIdle
    /\ HandlersIdle

\* the request arrives; the checks on file.content_type and len(file_data);
\* a ValidationException reaches the outer except, which answers success=False
UploadValidate ==
    /\ upc = "idle"
    /\ Len(scans) < MaxScans
    /\ \E file \in UploadFiles, check_interactions \in BOOLEAN :
          /\ upload' = [NoUpload EXCEPT !.file = file,
                                        !.check_interactions = check_interactions]
          /\ IF file = "image"
             THEN /\ upc' = "create"
                  /\ uresp' = NoUResp
             ELSE /\ upc' = "returned"
                  /\ uresp' = [NoUResp EXCEPT !.error = "validation"]
    /\ scan' = NoScan
    /\ UNCHANGED <<svars, evars, xvars, rvars, sessvars, adminvars, scans>>

\* scan = PrescriptionScan(..., processing_status=PROCESSING); db.add(scan);
\* await db.commit(); await db.refresh(scan).  Both awaits are outside the inner
\* try: what they raise is answered by the outer except
UploadCreate ==
    /\ upc = "create"
    /\ \E outcome \in {"ok", "commit_raises", "refresh_raises"} :
          /\ scans' = IF outcome = "commit_raises" THEN scans
                      ELSE Append(scans, [processing_status |-> "processing",
                                          error_message |-> NULL])
          /\ scan' = IF outcome = "commit_raises"
                     THEN [NoScan EXCEPT !.processing_status = "processing"]
                     ELSE [NoScan EXCEPT !.id = Len(scans) + 1,
                                         !.processing_status = "processing"]
          /\ upload' = [upload EXCEPT
                           !.raised = IF outcome = "commit_raises" THEN "commit"
                                      ELSE IF outcome = "refresh_raises" THEN "refresh"
                                      ELSE "none",
                           !.commit_failed = (outcome = "commit_raises")]
          /\ upc' = IF outcome = "ok" THEN "process" ELSE "returned"
          /\ uresp' = IF outcome = "ok" THEN uresp
                      ELSE [NoUResp EXCEPT !.error = IF outcome = "commit_raises"
                                                     THEN "commit" ELSE "refresh"]
    /\ UNCHANGED <<svars, evars, xvars, rvars, sessvars, adminvars>>

\* the file is written, ocr_service.process_image runs, the scan object takes
\* the extracted fields and processing_status = COMPLETED (not yet committed)
UploadProcess ==
    /\ upc = "process"
    /\ \E outcome \in {"ok", "save_raises", "ocr_raises"}, found \in BOOLEAN :
          IF outcome = "ok"
          THEN /\ scan' = [scan EXCEPT !.processing_status = "completed"]
               /\ upload' = [upload EXCEPT !.medications = found]
               /\ upc' = IF upload.check_interactions /\ found
                         THEN "check" ELSE "commit"
          ELSE /\ scan' = scan
               /\ upload' = [upload EXCEPT !.raised = IF outcome = "save_raises"
                                                      THEN "save_file" ELSE "ocr"]
               /\ upc' = "except"
    /\ UNCHANGED <<svars, evars, xvars, rvars, sessvars, adminvars, scans, uresp>>

\* interaction_service.check_interactions(...), which raises ProcessingException
\* when anything fails inside it, and the risk level
UploadCheckInteractions ==
    /\ upc = "check"
    /\ \E raises \in BOOLEAN :
          /\ upload' = [upload EXCEPT !.raised = IF raises THEN "check_interactions"
                                                 ELSE "none"]
          /\ upc' = IF raises THEN "except" ELSE "commit"
    /\ UNCHANGED <<svars, evars, xvars, rvars, sessvars, adminvars, scans, scan, uresp>>

\* await db.commit() of the inner try
UploadCommit ==
    /\ upc = "commit"
    /\ \E raises \in BOOLEAN :
          IF raises
          THEN /\ scans' = scans
               /\ upload' = [upload EXCEPT !.raised = "commit", !.commit_failed = TRUE]
               /\ upc' = "except"
          ELSE /\ scans' = [scans EXCEPT ![scan.id] =
                               [processing_status |-> scan.processing_status,
                                error_message |-> scan.error_message]]
               /\ upload' = upload
               /\ upc' = "respond"
    /\ UNCHANGED <<svars, evars, xvars, rvars, sessvars, adminvars, scan, uresp>>

\* generate_recommendations, the result is completed, the log line,
\* return OCRResponse(success=True, ...)
UploadRespond ==
    /\ upc = "respond"
    /\ \E raises \in BOOLEAN :
          IF raises
          THEN /\ upload' = [upload EXCEPT !.raised = "recommendations"]
               /\ upc' = "except"
               /\ uresp' = uresp
          ELSE /\ upload' = upload
               /\ upc' = "returned"
               /\ uresp' = [success |-> TRUE, scan_id |-> scan.id, error |-> NULL]
    /\ UNCHANGED <<svars, evars, xvars, rvars, sessvars, adminvars, scans, scan>>

\* the inner except: processing_status = FAILED, error_message = str(e),
\* await db.commit(), raise ProcessingException; the outer except answers
\* success=False, also when this commit raises
UploadExcept ==
    /\ upc = "except"
    /\ \E raises \in BOOLEAN :
          /\ scan' = [scan EXCEPT !.processing_status = "failed",
                                  !.error_message = upload.raised]
          /\ scans' = IF raises THEN scans
                      ELSE [scans EXCEPT ![scan.id] =
                              [processing_status |-> "failed",
                               error_message |-> upload.raised]]
          /\ upload' = [upload EXCEPT !.commit_failed = upload.commit_failed \/ raises]
          /\ uresp' = [NoUResp EXCEPT !.error = IF raises THEN "commit" ELSE upload.raised]
    /\ upc' = "returned"
    /\ UNCHANGED <<svars, evars, xvars, rvars, sessvars, adminvars>>

\* the response is sent; the next request can arrive
UploadReturn ==
    /\ upc = "returned"
    /\ upc' = "idle"
    /\ scan' = NoScan
    /\ upload' = NoUpload
    /\ uresp' = NoUResp
    /\ UNCHANGED <<svars, evars, xvars, rvars, sessvars, adminvars, scans>>

NextScan ==
    \/ UploadValidate \/ UploadCreate \/ UploadProcess \/ UploadCheckInteractions
    \/ UploadCommit \/ UploadRespond \/ UploadExcept \/ UploadReturn

SpecScan == InitScan /\ [][NextScan]_vars

------------------------------------------------------------------------------
(* add_drug_interaction, with up to two requests in flight on the same       *)
(* database.  A request reads the table in its query and writes it in its     *)
(* commit; the other request can run between the two.                         *)

\* current_user: without the attribute is_admin, with is_admin false or true
AdminUsers == {"no_is_admin", "not_admin", "admin"}

\* the names the form fields drug1 and drug2 take
AdminDrugNames == {"warf", "aspi"}

\* the query of add_drug_interaction: a row of the table for the two names,
\* in either order
ExistingInteraction(drug1, drug2) ==
    {row \in interaction_rows :
        \/ row.drug_name = drug1 /\ row.interacting_drug = drug2
        \/ row.drug_name = drug2 /\ row.interacting_drug = drug1}

\* UniqueConstraint('drug1_id', 'drug2_id'): the row would repeat the two
\* columns of a row of the table, in the same order
ViolatesUniqueConstraint(drug1, drug2) ==
    \E row \in interaction_rows : row.drug_name = drug1 /\ row.interacting_drug = drug2

\* `except Exception as e: raise HTTPException(status_code=500, ...)`: the
\* status the caller receives when the try block raised
StatusAfterExcept(raised) == 500

InitAdmin ==
    /\ drug_interactions = {}
    /\ ServiceIdle
    /\ EngineEmpty
    /\ EngineIdle
    /\ StandardizationEmpty
    /\ ReloadIdle
    /\ HandlersIdle

\* a request arrives: the test of is_admin, then the query for an existing
\* row; an HTTPException raised by either is raised inside the try block
AddCheck(r) ==
    /\ apc[r] = "idle"
    /\ areqs < MaxRequests
    /\ areqs' = areqs + 1
    /\ \E user \in AdminUsers, drug1 \in AdminDrugNames, drug2 \in AdminDrugNames :
          /\ areq' = [areq EXCEPT ![r] = [user |-> user, drug1 |-> drug1, drug2 |-> drug2]]
          /\ IF user # "admin"
             THEN /\ aresp' = [aresp EXCEPT ![r] = [raised |-> 403,
                                                    status |-> StatusAfterExcept(403),
                                                    added |-> FALSE]]
                  /\ apc' = [apc EXCEPT ![r] = "answered"]
             ELSE IF ExistingInteraction(drug1, drug2) # {}
             THEN /\ aresp' = [aresp EXCEPT ![r] = [raised |-> 400,
                                                    status |-> StatusAfterExcept(400),
                                                    added |-> FALSE]]
                  /\ apc' = [apc EXCEPT ![r] = "answered"]
             ELSE /\ aresp' = [aresp EXCEPT ![r] = NoAResp]
                  /\ apc' = [apc EXCEPT ![r] = "insert"]
    /\ UNCHANGED <<svars, evars, xvars, rvars, sessvars, scanvars, interaction_rows>>

\* db.add(new_interaction); db.commit(); return {"status": "success", ...}.
\* A commit the constraint rejects raises, and the except answers 500
AddCommit(r) ==
    /\ apc[r] = "insert"
    /\ IF ViolatesUniqueConstraint(areq[r].drug1, areq[r].drug2)
       THEN /\ interaction_rows' = interaction_rows
            /\ aresp' = [aresp EXCEPT ![r] = [raised |-> 0,
                                              status |-> StatusAfterExcept(0),
                                              added |-> FALSE]]
       ELSE /\ interaction_rows' = interaction_rows \cup
                   {[id |-> Cardinality(interaction_rows) + 1,
                     drug_name |-> areq[r].drug1,
                     interacting_drug |-> areq[r].drug2]}
            /\ aresp' = [aresp EXCEPT ![r] = [raised |-> 0, status |-> 200,
                                              added |-> TRUE]]
    /\ apc' = [apc EXCEPT ![r] = "answered"]
    /\ UNCHANGED <<svars, evars, xvars, rvars, sessvars, scanvars, areq, areqs>>

\* the answer is sent; the next request can arrive
AddReturn(r) ==
    /\ apc[r] = "answered"
    /\ apc' = [apc EXCEPT ![r] = "idle"]
    /\ areq' = [areq EXCEPT ![r] = NoAReq]
    /\ aresp' = [aresp EXCEPT ![r] = NoAResp]
    /\ UNCHANGED <<svars, evars, xvars, rvars, sessvars, scanvars, interaction_rows, areqs>>

NextAdmin ==
    \E r \in Requests : AddCheck(r) \/ AddCommit(r) \/ AddReturn(r)

SpecAdmin == InitAdmin /\ [][NextAdmin]_vars

------------------------------------------------------------------------------
(* Two standardize_drug_name calls on the shared DrugStandardizationService, *)
(* for names that are in no cache.  The calls are coroutines of one event    *)
(* loop: one runs until it awaits a response, then the other can run.        *)

InitSessions ==
    /\ drug_interactions = {}
    /\ ServiceIdle
    /\ EngineEmpty
    /\ EngineIdle
    /\ StandardizationEmpty
    /\ ReloadIdle
    /\ HandlersIdle

\* what a request through the session s is: sent on an open session, or
\* refused by a closed one
UseOf(s) == [session |-> s, open |-> sessions[s] = "open"]

\* `async with self.external_api as api`: __aenter__ assigns a new
\* ClientSession to self.session; then get_rxnorm_data sends the request of
\* find_rxcui through self.session and awaits the response
EnterAndRequestRxnorm(c) ==
    /\ cpc[c] = "idle"
    /\ Len(sessions) < MaxSessions
    /\ sessions' = Append(sessions, "open")
    /\ session' = Len(sessions) + 1
    /\ copened' = [copened EXCEPT ![c] = Len(sessions) + 1]
    /\ cuses' = [cuses EXCEPT ![c] = {[session |-> Len(sessions) + 1, open |-> TRUE]}]
    /\ cpc' = [cpc EXCEPT ![c] = "rxnorm"]
    /\ UNCHANGED <<svars, evars, xvars, rvars, scanvars, adminvars>>

\* the RxNorm answer arrives.  With a result the call caches it and returns,
\* leaving the context; with an error it goes on to search_fda_drug, which
\* sends its request through self.session and awaits the response
LeaveOrRequestFda(c) ==
    /\ cpc[c] = "rxnorm"
    /\ \E found \in BOOLEAN :
          IF found
          THEN /\ sessions' = IF session # NoId
                              THEN [sessions EXCEPT ![session] = "closed"]
                              ELSE sessions
               /\ cuses' = cuses
               /\ cpc' = [cpc EXCEPT ![c] = "done"]
          ELSE /\ sessions' = sessions
               /\ cuses' = [cuses EXCEPT ![c] = cuses[c] \cup {UseOf(session)}]
               /\ cpc' = [cpc EXCEPT ![c] = "fda"]
    /\ UNCHANGED <<svars, evars, xvars, rvars, scanvars, adminvars, session, copened>>

\* the FDA answer arrives, or the request was refused; the call leaves the
\* context: __aexit__ closes self.session if it is set
Leave(c) ==
    /\ cpc[c] = "fda"
    /\ sessions' = IF session # NoId THEN [sessions EXCEPT ![session] = "closed"]
                   ELSE sessions
    /\ cpc' = [cpc EXCEPT ![c] = "done"]
    /\ UNCHANGED <<svars, evars, xvars, rvars, scanvars, adminvars, session, copened,
                   cuses>>

\* the call has returned; the caller can call again
CallAgain(c) ==
    /\ cpc[c] = "done"
    /\ cpc' = [cpc EXCEPT ![c] = "idle"]
    /\ copened' = [copened EXCEPT ![c] = NoId]
    /\ cuses' = [cuses EXCEPT ![c] = {}]
    /\ UNCHANGED <<svars, evars, xvars, rvars, scanvars, adminvars, session, sessions>>

NextSessions ==
    \E c \in Callers :
        EnterAndRequestRxnorm(c) \/ LeaveOrRequestFda(c) \/ Leave(c) \/ CallAgain(c)

SpecSessions == InitSessions /\ [][NextSessions]_vars

------------------------------------------------------------------------------
(* Properties of the service *)

Done == pc = "done"
Alerts == ret.alerts
AlertPair(a) == {a.drug1_name, a.drug2_name}

\* the call passed drug names only
NamesOnly == call.medication_ids = <<>> /\ call.user_id = NoId

\* the rows stored for the unordered pair {a, b}, in either order
RowsOfPair(a, b) ==
    {r \in drug_interactions : {r.drug1_id, r.drug2_id} = {a, b}}

\* C1: for any two drugs A and B and any catalog, the lookup for (A,B) has the
\* same outcome (same record, same absence, same failure) as the lookup for
\* (B,A), and a pair with one stored row is found whichever id the row stores
\* first.
C1_LookupSymmetric ==
    \A a, b \in DrugIds :
        /\ InteractionLookup(drug_interactions, a, b)
             = InteractionLookup(drug_interactions, b, a)
        /\ Cardinality(RowsOfPair(a, b)) = 1 =>
             InteractionLookup(drug_interactions, a, b)
               = [kind |-> "one", rows |-> RowsOfPair(a, b)]

\* C1 witness: a finished call looked up (a,b), the only row of the pair is
\* stored as (b,a), and the call returned an alert for it.
C1_Witness ==
    /\ Done /\ ret.status = "ok" /\ Len(Alerts) = 1
    /\ \E q \in queries :
          /\ q[1] # q[2]
          /\ Cardinality(RowsOfPair(q[1], q[2])) = 1
          /\ \A r \in RowsOfPair(q[1], q[2]) : r.drug1_id = q[2] /\ r.drug2_id = q[1]

\* the catalog keeps the data model's invariant: one row per unordered pair of
\* two different drugs
WellFormedCatalog ==
    \A r \in drug_interactions :
        /\ r.drug1_id # r.drug2_id
        /\ RowsOfPair(r.drug1_id, r.drug2_id) = {r}

\* C2: no two alerts of one result describe the same unordered pair of drug
\* names (stated for the catalogs that keep the data model's invariant).
C2_NoDuplicatePairs ==
    (Done /\ WellFormedCatalog) => \A i, j \in 1..Len(Alerts) :
                i < j => AlertPair(Alerts[i]) # AlertPair(Alerts[j])

\* the input names that resolve to a catalog drug
ResolvingNames == {i \in 1..Len(call.drug_names) : DrugsLike(call.drug_names[i]) # {}}

\* C4: a call whose input yields 0 or 1 resolvable drugs (no name, one name, or
\* several names of which at most one resolves) returns an empty alert list
\* and does not raise.
C4_MinimumCardinality ==
    (Done /\ NamesOnly
          /\ (Len(call.drug_names) <= 1 \/ Cardinality(ResolvingNames) <= 1))
    => (ret.status = "ok" /\ Alerts = <<>>)

\* the entries of the medications list with a drug_id, and those without
Matched == {i \in 1..Len(medications) : medications[i].drug_id # NoId}
Unmatched == {i \in 1..Len(medications) : medications[i].drug_id = NoId}

\* C5: an entry with a null drug_id is never used: no lookup is issued for a
\* pair containing it, every alert names two entries that have a drug_id, and
\* one matched plus one unmatched entry give zero alerts.
C5_UnmatchedNeverPaired ==
    Done =>
        /\ \A q \in queries : q[1] # NoId /\ q[2] # NoId
        /\ \A k \in 1..Len(Alerts) :
              \E i, j \in Matched :
                  /\ medications[i].name = Alerts[k].drug1_name
                  /\ medications[j].name = Alerts[k].drug2_name
        /\ (Len(medications) = 2 /\ Unmatched # {}) =>
              (Alerts = <<>> /\ queries = {})

\* C5 witness: a finished call over one matched and one unmatched entry.
C5_Witness ==
    /\ Done /\ ret.status = "ok" /\ Len(medications) = 2
    /\ Cardinality(Matched) = 1 /\ Cardinality(Unmatched) = 1
    /\ drug_interactions # {}
    /\ Alerts = <<>>

\* C6: no alert has drug1 equal to drug2.
C6_NoSelfPair ==
    Done => \A k \in 1..Len(Alerts) : Alerts[k].drug1_name # Alerts[k].drug2_name

\* the severity rank of the claim: critical > major > moderate > minor
C7_Rank(severity) ==
    CASE severity = "critical" -> 4
      [] severity = "major"    -> 3
      [] severity = "moderate" -> 2
      [] severity = "minor"    -> 1

\* C7: the returned list is ordered by severity rank descending, then by
\* risk_score descending.
C7_SeverityOrdering ==
    Done => \A i, j \in 1..Len(Alerts) :
                i < j =>
                    \/ C7_Rank(Alerts[i].severity) > C7_Rank(Alerts[j].severity)
                    \/ /\ C7_Rank(Alerts[i].severity) = C7_Rank(Alerts[j].severity)
                       /\ Alerts[i].risk_score >= Alerts[j].risk_score

\* C7 witness: a returned list whose first alert is of higher severity and of
\* lower risk score than its second.
C7_Witness ==
    /\ Done /\ Len(Alerts) >= 2
    /\ C7_Rank(Alerts[1].severity) > C7_Rank(Alerts[2].severity)
    /\ Alerts[1].risk_score < Alerts[2].risk_score

\* the call named two drugs that both resolve, to different catalog drugs, and
\* the catalog holds one record for their pair
TwoResolvedWithRecord ==
    /\ Done /\ NamesOnly /\ Len(call.drug_names) = 2
    /\ Len(medications) = 2 /\ Unmatched = {}
    /\ medications[1].drug_id # medications[2].drug_id
    /\ Cardinality(RowsOfPair(medications[1].drug_id, medications[2].drug_id)) = 1

TheRecord ==
    CHOOSE r \in RowsOfPair(medications[1].drug_id, medications[2].drug_id) : TRUE

OnlyRecord == CHOOSE r \in drug_interactions : TRUE

\* C3: every alert the service produces has confidence and risk_score within
\* [0, 1], whatever the record's severity, evidence_level, documentation,
\* frequency and onset (unknown and absent values included), and its
\* risk_score is exactly 1 when the product of the multipliers exceeds 1; every
\* risk score the engine computes from a severity, an evidence level and a
\* match confidence within [0, 1] is within [0, 1].
C3_ScoresWithinUnitInterval ==
    /\ Done =>
         \A i \in 1..Len(Alerts) :
             /\ 0 <= Alerts[i].confidence /\ Alerts[i].confidence <= ConfidenceScale
             /\ 0 <= Alerts[i].risk_score /\ Alerts[i].risk_score <= RiskScale
             /\ (Cardinality(drug_interactions) = 1
                   /\ RiskProduct(OnlyRecord, Alerts[i].confidence) > RiskScale)
                  => Alerts[i].risk_score = RiskScale
    /\ (epc = "done" /\ ecall.op = "_calculate_risk_score" /\ ~eret.raised) =>
         /\ 0 <= eret.risk_score
         /\ eret.risk_score <= EngineRiskScale

\* C3 witness: an alert whose product of multipliers exceeds 1 and whose
\* risk_score is 1.
C3_Witness ==
    /\ Done /\ Len(Alerts) = 1 /\ Cardinality(drug_interactions) = 1
    /\ RiskProduct(OnlyRecord, Alerts[1].confidence) > RiskScale
    /\ Alerts[1].risk_score = RiskScale

\* non-null and equal drug_class of two catalog drugs
SameClass(a, b) ==
    /\ DrugById(a).drug_class # NULL
    /\ DrugById(a).drug_class = DrugById(b).drug_class

\* the alerts of the result that name the two medications
AlertsNaming(m1, m2) == {k \in 1..Len(Alerts) : AlertPair(Alerts[k]) = {m1.name, m2.name}}

\* C9 as stated: for two matched drugs with no record in the catalog, a call
\* produces exactly one alert, of severity moderate and source "heuristic",
\* when both have the same non-null drug_class, and no alert for the pair
\* otherwise.
C9_SameClassHeuristic ==
    (Done /\ ret.status = "ok") =>
        \A i, j \in 1..Len(medications) :
            (/\ i < j
             /\ medications[i].drug_id # NoId /\ medications[j].drug_id # NoId
             /\ medications[i].drug_id # medications[j].drug_id
             /\ RowsOfPair(medications[i].drug_id, medications[j].drug_id) = {})
            => IF SameClass(medications[i].drug_id, medications[j].drug_id)
               THEN /\ Cardinality(AlertsNaming(medications[i], medications[j])) = 1
                    /\ \A k \in AlertsNaming(medications[i], medications[j]) :
                          /\ Alerts[k].severity = "moderate"
                          /\ Alerts[k].source = "heuristic"
               ELSE AlertsNaming(medications[i], medications[j]) = {}

\* the input names with a per-name problem: a name that matches no catalog row,
\* or more than one
ProblemNames ==
    {i \in 1..Len(call.drug_names) : Cardinality(DrugsLike(call.drug_names[i])) # 1}

\* C12 as stated: a per-name problem in a batch never makes check_interactions
\* fail for the whole batch: the call returns normally, the other names are
\* resolved and their pairs checked (stated for the catalogs that keep the data
\* model's invariant, where no pair lookup fails).
C12_BadNameDoesNotFailBatch ==
    (Done /\ NamesOnly /\ WellFormedCatalog /\ ProblemNames # {}) =>
        /\ ret.status = "ok"
        /\ \A i, j \in 1..Len(call.drug_names) :
              (/\ i < j
               /\ i \notin ProblemNames /\ j \notin ProblemNames
               /\ NameEntry(call.drug_names[i]).drug_id
                     # NameEntry(call.drug_names[j]).drug_id)
              => <<NameEntry(call.drug_names[i]).drug_id,
                   NameEntry(call.drug_names[j]).drug_id>> \in queries

\* rank(evidence_level) of C16, 1..5
EvidenceRank(evidence_level) ==
    CASE evidence_level = "systematic_review" -> 5
      [] evidence_level = "clinical_trial"    -> 4
      [] evidence_level = "observational"     -> 3
      [] evidence_level = "case_report"       -> 2
      [] evidence_level = "theoretical"       -> 1

\* 5 * rank(documentation_quality) of C16, rank in 1..4, or 5 * 4 * 0.6 when the
\* record has none
DocumentationRankTimes5(documentation) ==
    CASE documentation = "excellent" -> 5 * 4
      [] documentation = "good"      -> 5 * 3
      [] documentation = "fair"      -> 5 * 2
      [] documentation = "poor"      -> 5 * 1
      [] documentation = NULL        -> 12

\* the records C16's formula gives a value to
RankedRecord(r) ==
    /\ r.evidence_level \in {"systematic_review", "clinical_trial", "observational",
                             "case_report", "theoretical"}
    /\ r.documentation \in {"excellent", "good", "fair", "poor", NULL}

\* the product of C16 before the clamp, in units of 1/(2 * RiskScale):
\* (severity/4) * ((evidence/5 + doc/4)/2) * (frequency/10) * (onset/10), the
\* two names of the call resolving to their drugs with match confidence 1
ClaimedRiskProduct(r) ==
    severity_scores(r.severity)
        * (4 * EvidenceRank(r.evidence_level) + DocumentationRankTimes5(r.documentation))
        * (CASE r.frequency = "common" -> 12 [] r.frequency = "rare" -> 8 [] OTHER -> 10)
        * (IF r.onset = "rapid" THEN 11 ELSE 10)

\* C16 as stated: the alert's risk_score equals min(1.0, severity_score *
\* ((evidence_score + doc_score)/2) * frequency_mult * onset_mult * the lower
\* match confidence), with severity_score = rank/4, evidence_score = rank/5,
\* doc_score = rank/4 or 0.6 if absent, frequency_mult 1.2 / 0.8 / 1.0 and
\* onset_mult 1.1 / 1.0.
C16_RiskFormula ==
    (Done /\ Cardinality(drug_interactions) = 1 /\ RankedRecord(OnlyRecord)) =>
        \A i \in 1..Len(Alerts) :
            2 * Alerts[i].risk_score = Min(2 * RiskScale, ClaimedRiskProduct(OnlyRecord))

------------------------------------------------------------------------------
(* Properties of the engine *)

EDone == epc = "done" /\ ecall.op = "detect_interactions"

\* C10 as stated: with the catalog, the thresholds and the input list fixed, the
\* matches and the alerts of a run are the same, in the same order, whatever
\* order the set of names gave to the name list.
C10_IndependentOfSetOrder ==
    EDone =>
        \A order \in LoadedOrders(edb) :
            LET r == DetectInteractions(edb, order, nlp_available, embedding,
                                        ecall.drug_names)
            IN  r.matched = eret.matched /\ r.alerts = eret.alerts

\* the entries of the result that were built for an input name
EntriesOf(name) == {k \in 1..Len(eret.matched) : eret.matched[k].drug_name = name}

\* the candidates _find_best_matches gives for an input name in this state
CandidatesOf(name) ==
    FindBestMatches(CleanDrugName(name), DefaultThreshold, drug_list,
                    edb.drug_names_cache, nlp_available, embedding)

\* C11 as stated: the result of resolving a batch has an entry for every valid
\* input name, and a name for which no candidate reaches the confidence floor
\* is returned as an unmatched DrugMatch, with no drug_id and confidence 0.
C11_UnmatchedReturned ==
    EDone =>
        \A i \in 1..Len(ecall.drug_names) :
            LET name == ecall.drug_names[i]
            IN  RawLen(name) >= 2 =>
                   /\ EntriesOf(name) # {}
                   /\ CandidatesOf(name) = <<>> =>
                         \A k \in EntriesOf(name) :
                            /\ eret.matched[k].drug_id = NoId
                            /\ eret.matched[k].confidence = 0

\* the input names long enough to be matched
ValidNames == {i \in 1..Len(ecall.drug_names) : RawLen(ecall.drug_names[i]) >= 2}

\* a catalog query of the run failed: the database did not answer when the
\* names of a call with two valid names were loaded, or a pair was looked up
\* (the pair query raises on every evaluation, see
\* drug_interaction_association_bound)
CatalogQueryFailed ==
    \/ ~edb.available /\ Cardinality(ValidNames) >= 2
    \/ Len(eret.matched) >= 2 /\ ~drug_interaction_association_bound

\* C13 as stated: when the catalog is unavailable or a catalog query fails
\* during an interaction check, the call ends with an error visible to the
\* caller and never returns a normal result whose alert list is empty.
C13_CatalogFailureVisible ==
    (EDone /\ CatalogQueryFailed) => eret.raised

\* the matches the exact, fuzzy and vector strategies give one cleaned name
NonSemanticMatches(drug_name) ==
    UniqueMatches(ExactMatch(drug_name, edb.drug_names_cache)
                     \o FuzzyMatches(FuzzyExtract(drug_name, drug_list), DefaultThreshold)
                     \o (IF drug_list # <<>>
                         THEN TfidfMatching(drug_name, DefaultThreshold, drug_list)
                         ELSE <<>>),
                  <<>>)

\* the DrugMatch entries they give a list of input names
RECURSIVE NonSemanticLoop(_)
NonSemanticLoop(names) ==
    IF names = <<>> THEN <<>>
    ELSE (IF RawLen(Head(names)) < 2 THEN <<>>
          ELSE DrugMatchesOf(Head(names), NonSemanticMatches(CleanDrugName(Head(names))),
                             edb.drug_names_cache))
            \o NonSemanticLoop(Tail(names))

\* the embedding model did not load, or raises when asked for an embedding
SemanticUnavailable == ~nlp_available \/ EmbeddingRaises(embedding)

\* C14: if the semantic capability is unavailable at construction or raises
\* during a query, name resolution completes and returns exactly the matches
\* of the exact, fuzzy and vector strategies: the semantic strategy adds no
\* candidate and does not fail the resolution.
C14_SemanticFallback ==
    (EDone /\ SemanticUnavailable) =>
        /\ ~eret.raised
        /\ eret.matched
             = SortByConfidence(DeduplicateMatches(NonSemanticLoop(ecall.drug_names), {}))

\* C14 witness: the model loaded but raises, the call resolved one name by the
\* other strategies and found no candidate for another that a working model
\* would have matched.
C14_Witness ==
    /\ EDone /\ nlp_available /\ EmbeddingRaises(embedding)
    /\ eret.matched # <<>>
    /\ \E i \in ValidNames :
          /\ CandidatesOf(ecall.drug_names[i]) = <<>>
          /\ SemanticCandidates(CleanDrugName(ecall.drug_names[i]), DefaultThreshold,
                                drug_list, "loose") # <<>>

\* the match confidence (percent) of the DrugMatch an alert names
MatchConfidence(matched_name) ==
    LET k == CHOOSE k \in 1..Len(eret.matched) : eret.matched[k].matched_name = matched_name
    IN  eret.matched[k].confidence

\* C17 as stated: the confidence of every alert equals the minimum of the match
\* confidences of the two drugs it names, for database alerts and for
\* same-class heuristic alerts alike.
C17_AlertConfidenceIsMinimum ==
    EDone =>
        \A i \in 1..Len(eret.alerts) :
            eret.alerts[i].confidence * 100
               = Min(MatchConfidence(eret.alerts[i].drug1),
                     MatchConfidence(eret.alerts[i].drug2)) * EngineConfidenceScale

\* the matches of the batch before _deduplicate_matches
AllMatches ==
    MatchLoop(ecall.drug_names, DefaultThreshold, drug_list, edb.drug_names_cache,
              nlp_available, embedding)

\* C18 as stated: when several matches of a batch resolve to the same drug_id,
\* the deduplicated result keeps the one of highest confidence among them,
\* whatever the order of the input names and of the candidates.
C18_DeduplicateKeepsHighest ==
    EDone =>
        \A k \in 1..Len(eret.matched) :
            \A i \in 1..Len(AllMatches) :
                AllMatches[i].drug_id = eret.matched[k].drug_id
                   => AllMatches[i].confidence <= eret.matched[k].confidence

\* C19 as stated: each input name resolves to at most one DrugMatch, the
\* candidate of highest confidence across all drug identities: a name whose
\* candidates belong to several catalog drugs adds no more than one drug to the
\* resolved set.
C19_OneMatchPerName ==
    EDone =>
        \A i \in 1..Len(ecall.drug_names) :
            /\ Cardinality(EntriesOf(ecall.drug_names[i])) <= 1
            /\ \A k \in EntriesOf(ecall.drug_names[i]) :
                  \A c \in 1..Len(CandidatesOf(ecall.drug_names[i])) :
                      CandidatesOf(ecall.drug_names[i])[c].confidence
                         <= eret.matched[k].confidence

\* what the four strategies propose for a cleaned name, before any merging
StrategyProposals(drug_name) ==
    ExactMatch(drug_name, edb.drug_names_cache)
        \o FuzzyMatches(FuzzyExtract(drug_name, drug_list), DefaultThreshold)
        \o (IF drug_list # <<>> THEN TfidfMatching(drug_name, DefaultThreshold, drug_list)
            ELSE <<>>)
        \o (IF nlp_available
            THEN SemanticMatching(drug_name, DefaultThreshold, drug_list, embedding)
            ELSE <<>>)

\* the priority of a method: exact > fuzzy > vector > semantic
MethodPriority(method) ==
    CASE method = "exact"    -> 1
      [] method = "fuzzy"    -> 2
      [] method = "tfidf"    -> 3
      [] method = "semantic" -> 4

\* kept[k] is the best of the proposals in group: of maximum confidence, and of
\* the first method in priority order among those of that confidence
BestOf(kept, k, proposals, group) ==
    /\ \E i \in group : proposals[i] = kept[k]
    /\ \A i \in group :
          /\ proposals[i].confidence <= kept[k].confidence
          /\ proposals[i].confidence = kept[k].confidence
                => MethodPriority(kept[k].method) <= MethodPriority(proposals[i].method)

\* the proposals are grouped by matched name: one kept candidate per proposed
\* name, the best of the proposals of that name
BestPerMatchedName(kept, proposals) ==
    /\ \A i \in 1..Len(proposals) :
          Cardinality({k \in 1..Len(kept) :
                          kept[k].matched_name = proposals[i].matched_name}) = 1
    /\ \A k \in 1..Len(kept) :
          BestOf(kept, k, proposals,
                 {i \in 1..Len(proposals) :
                     proposals[i].matched_name = kept[k].matched_name})

\* the drug a matched name resolves to
DrugOf(matched_name) == edb.drug_names_cache[LowerStr(matched_name)].drug_id

\* the proposals are grouped by drug: one kept candidate per proposed drug, the
\* best of the proposals for that drug
BestPerDrug(kept, proposals) ==
    /\ \A i \in 1..Len(proposals) :
          Cardinality({k \in 1..Len(kept) :
                          DrugOf(kept[k].matched_name)
                             = DrugOf(proposals[i].matched_name)}) = 1
    /\ \A k \in 1..Len(kept) :
          BestOf(kept, k, proposals,
                 {i \in 1..Len(proposals) :
                     DrugOf(proposals[i].matched_name) = DrugOf(kept[k].matched_name)})

\* a cleaned name that is a verbatim key of the index is kept with confidence
\* 1.0 and method exact
VerbatimKeyIsExact(kept, drug_name) ==
    (\E key \in DOMAIN edb.drug_names_cache : Chars(key) = drug_name) =>
        \E k \in 1..Len(kept) :
            kept[k] = [matched_name |-> StrOf(drug_name), confidence |-> 100,
                       method |-> "exact"]

ProposedTwice(name, method1, method2, strictly) ==
    \E a, b \in 1..Len(StrategyProposals(CleanDrugName(name))) :
        LET p == StrategyProposals(CleanDrugName(name))
        IN  /\ a < b
            /\ p[a].matched_name = p[b].matched_name
            /\ p[a].method = method1 /\ p[b].method = method2
            /\ IF strictly THEN p[a].confidence < p[b].confidence
               ELSE p[a].confidence = p[b].confidence

C21_ShortNormalizedRejected ==
    EDone =>
        \A i \in 1..Len(ecall.drug_names) :
            Len(CleanDrugName(ecall.drug_names[i])) < 2
               => /\ EntriesOf(ecall.drug_names[i]) = {}
                  /\ MatchOne(ecall.drug_names[i], DefaultThreshold, drug_list,
                              edb.drug_names_cache, nlp_available, embedding) = <<>>

\* a call of _find_best_matches has returned
MDone == epc = "done" /\ ecall.op = "_find_best_matches"

\* the similarity ratio (percent) of the query of the call and a catalog name
QueryRatio(name) ==
    Ratio(FullProcess(CleanDrugName(ecall.drug_names[1])), FullProcess(Chars(name)))

\* C22 as stated: the fuzzy strategy compares the query against every catalog
\* name and returns every name whose ratio is >= the threshold, with
\* confidence equal to its ratio: no name that clears the threshold is
\* omitted, whatever the catalog size.
C22_FuzzyReturnsAllAboveThreshold ==
    MDone =>
        \A i \in 1..Len(drug_list) :
            QueryRatio(drug_list[i]) >= DefaultThreshold
               => \E k \in 1..Len(eret.matched) :
                     /\ eret.matched[k].matched_name = drug_list[i]
                     /\ eret.matched[k].confidence >= QueryRatio(drug_list[i])

\* the pairs of the run that visit the two positions a and b, in either order
VisitsOf(a, b) == {k \in 1..Len(eret.pairs) : {eret.pairs[k][1], eret.pairs[k][2]} = {a, b}}

OldIndex == DrugNamesCache(ReloadOldDrugs)
NewIndex == DrugNamesCache(ReloadNewDrugs)

\* C24 as stated: if load_drug_database rebuilds the index while a
\* match_drug_names call on the same matcher is in flight, the query sees
\* either the complete old index or the complete new one: never an emptied or
\* partly filled drug_names_cache, nor a drug_list that does not correspond
\* position by position to drug_vectors.
C24_QuerySeesWholeIndex ==
    qpc = "done" =>
        /\ \/ qseen.cache1 = OldIndex /\ qseen.cache2 = OldIndex
           \/ qseen.cache1 = NewIndex /\ qseen.cache2 = NewIndex
        /\ qseen.list2 = qseen.vectors

ViewSeverities == {"critical", "major", "moderate", "minor"}

\* the positions of the sorted alert list whose alert has the severity s
PositionsOf(s) == {i \in 1..Len(eret.alerts) : eret.alerts[i].severity = s}

\* the k-th smallest position of the severity s
KthPosition(s, k) ==
    CHOOSE i \in PositionsOf(s) : Cardinality({j \in PositionsOf(s) : j < i}) = k - 1

\* C25: the list the view holds for each of critical, major, moderate and
\* minor is made of exactly the alerts of that severity, in the order they have
\* in the sorted alert list; every alert of the list is in exactly one of the
\* four lists; total_interactions is the sum of the four lengths.
C25_ViewPartitionsAlerts ==
    (EDone /\ ecall.op = "detect_interactions") =>
        /\ \A s \in ViewSeverities :
              /\ Len(eret.view[s]) = Cardinality(PositionsOf(s))
              /\ \A k \in 1..Len(eret.view[s]) :
                    eret.view[s][k] = eret.alerts[KthPosition(s, k)]
        /\ \A i \in 1..Len(eret.alerts) :
              Cardinality({s \in ViewSeverities : i \in PositionsOf(s)}) = 1
        /\ eret.view.total_interactions
              = Len(eret.view.critical) + Len(eret.view.major)
                  + Len(eret.view.moderate) + Len(eret.view.minor)

\* a call whose sorted list holds several alerts, found again in the view
C25_Witness ==
    /\ EDone
    /\ ecall.op = "detect_interactions"
    /\ Len(eret.alerts) >= 2
    /\ eret.view.moderate = eret.alerts
    /\ eret.view.total_interactions = Len(eret.alerts)

------------------------------------------------------------------------------
(* Properties of the scan endpoint *)

\* the request has returned after creating a scan record, and no commit failed
ScanCreatedAndReturned ==
    /\ upc = "returned"
    /\ scan.id # NoId
    /\ ~upload.commit_failed

\* C27 as stated: when upload_and_scan_prescription returns, the scan record
\* it created is not in status PROCESSING; provided the commits succeeded, the
\* persisted status is COMPLETED exactly when the response has success=True,
\* and it is FAILED with an error_message whenever a step after the creation
\* of the record raised.
C27_ScanNeverLeftProcessing ==
    ScanCreatedAndReturned =>
        /\ scans[scan.id].processing_status # "processing"
        /\ scans[scan.id].processing_status = "completed" <=> uresp.success
        /\ upload.raised # "none" =>
              /\ scans[scan.id].processing_status = "failed"
              /\ scans[scan.id].error_message # NULL

------------------------------------------------------------------------------
(* Properties of add_drug_interaction *)

C29_CheckStatusReachesCaller ==
    \A r \in Requests :
        apc[r] = "answered" =>
            /\ areq[r].user # "admin" => aresp[r].status = 403 /\ ~aresp[r].added
            /\ aresp[r].raised = 400 => aresp[r].status = 400
            /\ aresp[r].raised # 0 => aresp[r].status = aresp[r].raised

------------------------------------------------------------------------------
(* Properties of the shared ExternalAPIService *)

\* C30 as stated: when two standardize_drug_name calls on the shared service
\* overlap, every request of a call goes through the session that call opened
\* and finds it open; no call replaces or closes the session of a call still
\* running; once no call is running, every session that was opened is closed.
C30_EachCallKeepsItsSession ==
    /\ \A c \in Callers :
          /\ \A u \in cuses[c] : u.session = copened[c] /\ u.open
          /\ cpc[c] \in {"rxnorm", "fda"} =>
                /\ session = copened[c]
                /\ sessions[copened[c]] = "open"
    /\ (\A c \in Callers : cpc[c] \in {"idle", "done"}) =>
          \A s \in 1..Len(sessions) : sessions[s] = "closed"

------------------------------------------------------------------------------
(* Properties of the standardization service *)

\* C15 as stated: after standardize_drug_name(n) completes, n.lower() is a key
\* of drug_cache, and a second call with the same n returns a result equal to
\* the first and is served from the cache without a request to the external
\* APIs, for every input string n (names with surrounding whitespace and names
\* whose first lookup failed included).
C15_SecondCallFromCache ==
    /\ \A i \in 1..Len(calls) : LowerStr(calls[i].drug_name) \in DOMAIN drug_cache
    /\ \A i, j \in 1..Len(calls) :
          (i < j /\ calls[i].drug_name = calls[j].drug_name) =>
              /\ calls[j].result = calls[i].result
              /\ calls[j].requests = 0

====
